---- MODULE Spec2Model ----
(***************************************************************************)
(* BasitKargo -> Shopify fulfillment bridge.                               *)
(*                                                                         *)
(* The repository holds four variants of the same webhook handler:         *)
(*   "backfill" : src/index.js 1-334      (direct reference, test payload) *)
(*   "payload"  : src/index.js 336-513    (order taken from the payload)   *)
(*   "search"   : src/unnamed/part_000    (order name, text search)        *)
(*   "gid"      : src/unnamed/part_001    (direct reference, carrier name) *)
(* One invocation is a sequence of steps separated by its awaits; every    *)
(* action below runs the code between two awaits as one atomic step.       *)
(***************************************************************************)
EXTENDS Integers, Sequences, FiniteSets, TLC

(* ------------------------------ bounds --------------------------------- *)
MaxUnits == 2
MaxDeliveries == 2
MaxTextLen == 5
\* the number of items a backfill run is handed by the provider, over all its pages
MaxItems == 2
\* the longest run of digits in the fields order-name extraction is applied to
MaxRunLen == 9

Variants == {"backfill", "payload", "search", "gid"}
\* the requests that can be in progress; the handler keeps nothing from one request to
\* the next, so one slot serves all the deliveries that follow one another
Handlers == {"first", "second"}

(* --------------------------- text values ------------------------------- *)
(* A JSON field that goes through a regular expression is a value with a   *)
(* shape: absent, a string (sequence of characters) or an object.          *)
Digit == {"0", "1", "2", "3", "4", "5", "6", "7", "8", "9"}
LowerCase == <<"a", "b", "c", "e", "j", "l", "o", "p", "t">>
UpperCase == <<"A", "B", "C", "E", "J", "L", "O", "P", "T">>

Absent == [t |-> "absent", s |-> <<>>]
Str(s) == [t |-> "str", s |-> s]
Obj == [t |-> "obj", s |-> <<>>]

\* Boolean(x): undefined and "" are falsy, {} is truthy
Truthy(v) == v.t = "obj" \/ (v.t = "str" /\ v.s # <<>>)

\* x.toString(): "[object Object]" for a plain object
ObjectText == <<"[", "o", "b", "j", "e", "c", "t", " ", "O", "b", "j", "e", "c", "t", "]">>
ToText(v) == IF v.t = "obj" THEN ObjectText ELSE v.s

\* the first truthy value of a list of candidates, Absent when none (a || b || ... )
RECURSIVE FirstTruthy(_)
FirstTruthy(vs) ==
  IF vs = <<>> THEN Absent
  ELSE IF Truthy(Head(vs)) THEN Head(vs) ELSE FirstTruthy(Tail(vs))

RECURSIVE TrimLeft(_)
TrimLeft(s) == IF s # <<>> /\ Head(s) = " " THEN TrimLeft(Tail(s)) ELSE s
RECURSIVE TrimRight(_)
TrimRight(s) == IF s # <<>> /\ s[Len(s)] = " " THEN TrimRight(SubSeq(s, 1, Len(s) - 1)) ELSE s
Trim(s) == TrimRight(TrimLeft(s))

ToUpperChar(c) ==
  IF \E n \in DOMAIN LowerCase : LowerCase[n] = c
  THEN UpperCase[CHOOSE n \in DOMAIN LowerCase : LowerCase[n] = c]
  ELSE c
ToUpperCase(s) == [n \in 1..Len(s) |-> ToUpperChar(s[n])]

AllDigits(s) == \A n \in 1..Len(s) : s[n] \in Digit
\* \w: the characters used here that are not word characters
NonWordChar == {" ", "|", "/", "#", "-", "[", "]", ":"}
IsWordChar(c) == c \notin NonWordChar
StartsWithHash(s) == s # <<>> /\ Head(s) = "#"
\* s.replace(/^#/, "")
StripHash(s) == IF StartsWithHash(s) THEN Tail(s) ELSE s

\* "LP-" in any letter case at position n of s
IsLPDashAt(s, n) ==
  /\ n + 2 <= Len(s)
  /\ s[n] \in {"L", "l"}
  /\ s[n + 1] \in {"P", "p"}
  /\ s[n + 2] = "-"

\* length of the run of digits that starts at position n of s
RECURSIVE DigitRun(_, _)
DigitRun(s, n) == IF n <= Len(s) /\ s[n] \in Digit THEN 1 + DigitRun(s, n + 1) ELSE 0

\* /^#?LP-\d+$/i
MatchesLPCode(s) ==
  LET b == StripHash(s)
  IN  IsLPDashAt(b, 1) /\ Len(b) >= 4 /\ AllDigits(SubSeq(b, 4, Len(b)))

\* /^\d{3,8}$/
MatchesShortNumber(s) == Len(s) >= 3 /\ Len(s) <= 8 /\ AllDigits(s)

\* /^\d{10,16}$/
MatchesPlatformId(s) == Len(s) >= 10 /\ Len(s) <= 16 /\ AllDigits(s)

\* joined.match(/LP-\d+/i): leftmost match, digits taken greedily; <<>> when no match
EmbeddedLPPositions(s) == {n \in 1..Len(s) : IsLPDashAt(s, n) /\ DigitRun(s, n + 3) >= 1}
Min(S) == CHOOSE x \in S : \A y \in S : x <= y
MatchEmbeddedLP(s) ==
  IF EmbeddedLPPositions(s) = {} THEN <<>>
  ELSE LET n == Min(EmbeddedLPPositions(s))
       IN  SubSeq(s, n, n + 2 + DigitRun(s, n + 3))

\* joined.match(/\b(\d{3,8})\b/): a maximal run of digits of length 3..8 with a
\* word boundary on both sides; <<>> when no match
\* the same positions without the word boundaries and the upper length
BareNumberPositions_anyRun(s) == {n \in 1..Len(s) : s[n] \in Digit /\ DigitRun(s, n) >= 3}
BareNumberPositions(s) ==
  {n \in 1..Len(s) :
     /\ s[n] \in Digit
     /\ (n = 1 \/ ~IsWordChar(s[n - 1]))
     /\ DigitRun(s, n) >= 3 /\ DigitRun(s, n) <= 8
     /\ (n + DigitRun(s, n) > Len(s) \/ ~IsWordChar(s[n + DigitRun(s, n)]))}
MatchBareNumber(s) ==
  IF BareNumberPositions(s) = {} THEN <<>>
  ELSE LET n == Min(BareNumberPositions(s))
       IN  SubSeq(s, n, n + DigitRun(s, n) - 1)

RECURSIVE JoinWith(_, _)
JoinWith(ss, sep) ==
  IF ss = <<>> THEN <<>>
  ELSE IF Len(ss) = 1 THEN ss[1]
  ELSE ss[1] \o sep \o JoinWith(Tail(ss), sep)

(* ------------------------- Field Extractor ----------------------------- *)
\* the text of an order name or reference; NoText is JavaScript's null
NoText == <<>>
Hash == <<"#">>
HashLP == <<"#", "L", "P", "-">>
\* "gid://shopify/Order/"
GidPrefix == << "g", "i", "d", ":", "/", "/", "s", "h", "o", "p", "i", "f", "y", "/",
               "O", "r", "d", "e", "r", "/" >>

\* candidates.filter(Boolean).map(x => x.toString().trim()).filter(x => x.length)
RECURSIVE CleanCandidates(_)
CleanCandidates(vs) ==
  IF vs = <<>> THEN <<>>
  ELSE LET rest == CleanCandidates(Tail(vs))
           text == Trim(ToText(Head(vs)))
       IN  IF Truthy(Head(vs)) /\ text # <<>> THEN <<text>> \o rest ELSE rest

\* the first candidate that is exactly an LP code, <<>> when none
RECURSIVE FirstLPCode(_)
FirstLPCode(ss) ==
  IF ss = <<>> THEN <<>>
  ELSE IF MatchesLPCode(Head(ss)) THEN Head(ss) ELSE FirstLPCode(Tail(ss))

NameCandidates(bk) ==
  << bk.content_code, bk.content_orderCode, bk.content_reference, bk.content_ref,
     bk.code, bk.orderCode, bk.reference, bk.ref,
     bk.sourceOrderCode, bk.source_orderCode, bk.source_code >>

\* the same extraction with the letters left in the case they came in
extractShopifyOrderNameFromBasitKargo_caseKept(bk) ==
  LET candidates == CleanCandidates(NameCandidates(bk))
      exact == FirstLPCode(candidates)
      joined == JoinWith(candidates, <<" ", "|", " ">>)
      lp == MatchEmbeddedLP(joined)
      num == MatchBareNumber(joined)
  IN  IF exact # <<>> THEN Hash \o StripHash(exact)
      ELSE IF lp # <<>> THEN Hash \o lp
      ELSE IF num # <<>> THEN HashLP \o num
      ELSE NoText

extractShopifyOrderNameFromBasitKargo(bk) ==
  LET candidates == CleanCandidates(NameCandidates(bk))
      exact == FirstLPCode(candidates)
      joined == JoinWith(candidates, <<" ", "|", " ">>)
      lp == MatchEmbeddedLP(joined)
      num == MatchBareNumber(joined)
  IN  IF exact # <<>> THEN Hash \o ToUpperCase(StripHash(exact))
      ELSE IF lp # <<>> THEN Hash \o ToUpperCase(lp)
      ELSE IF num # <<>> THEN HashLP \o num
      ELSE NoText

\* the same extraction without the test for a 10 to 16 digit id
extractShopifyOrderGidFromBasitKargo_anyText(bk) ==
  LET raw == FirstTruthy(<<bk.content_code, bk.foreignCode>>)
  IN  IF ~Truthy(raw) THEN NoText ELSE GidPrefix \o Trim(ToText(raw))

extractShopifyOrderGidFromBasitKargo(bk) ==
  LET raw == FirstTruthy(<<bk.content_code, bk.foreignCode>>)
      s == Trim(ToText(raw))
  IN  IF ~Truthy(raw) THEN NoText
      ELSE IF MatchesPlatformId(s) THEN GidPrefix \o s
      ELSE NoText

\* the normalisation of a direct order hint of the payload (search variant)
NormalizeHint(hint) ==
  LET s == Trim(ToText(hint))
  IN  IF MatchesLPCode(s) THEN Hash \o ToUpperCase(StripHash(s))
      ELSE IF MatchesShortNumber(s) THEN HashLP \o s
      ELSE IF StartsWithHash(s) THEN s ELSE Hash \o s

\* buildOrderQuery: the two names searched for, NoQuery when the input is blank
NoQuery == [withHash |-> <<>>, noHash |-> <<>>]
buildOrderQuery(text) ==
  LET raw == Trim(text)
      withHash == IF StartsWithHash(raw) THEN raw ELSE Hash \o raw
  IN  IF raw = <<>> THEN NoQuery
      ELSE [withHash |-> withHash, noHash |-> StripHash(withHash)]

\* opaque strings (status, id, tracking number, carrier): "" is absent or empty
FirstNonEmpty(ss) ==
  IF \E n \in DOMAIN ss : ss[n] # ""
  THEN ss[Min({n \in DOMAIN ss : ss[n] # ""})]
  ELSE ""

normalizeTrackingNumber_backfill(bk, payload) ==
  FirstNonEmpty(<< bk.si_handlerShipmentCode, payload.si_handlerShipmentCode,
                   payload.handlerShipmentCode, bk.barcode, payload.barcode >>)

normalizeTrackingNumber_gid(bk, payload) ==
  FirstNonEmpty(<< bk.si_handlerShipmentCode, payload.si_handlerShipmentCode,
                   payload.handlerShipmentCode, payload.barcode >>)

\* the same with the code fields read before the name fields
normalizeCarrierName_codesFirst(bk, payload) ==
  LET c == FirstNonEmpty(<< bk.si_handler_code, payload.si_handler_code, payload.handler_code,
                            bk.si_handler_name, payload.si_handler_name, payload.handler_name >>)
  IN  IF c # "" THEN c ELSE "Other"
normalizeCarrierName(bk, payload) ==
  LET c == FirstNonEmpty(<< bk.si_handler_name, payload.si_handler_name, payload.handler_name,
                            bk.si_handler_code, payload.si_handler_code, payload.handler_code >>)
  IN  IF c # "" THEN c ELSE "Other"

(* ------------------------------ inputs --------------------------------- *)
\* a request body; present = FALSE is a request without a body
EmptyPayload ==
  [ present |-> TRUE, status |-> "", id |-> "",
    handlerShipmentCode |-> "", barcode |-> "",
    si_handlerShipmentCode |-> "", si_trackingLink |-> "",
    shopify_order |-> Absent, orderNumber |-> Absent, order_no |-> Absent,
    code |-> Absent, order |-> Absent,
    handler_name |-> "", handler_code |-> "",
    si_handler_name |-> "", si_handler_code |-> "" ]
NoBody == [EmptyPayload EXCEPT !.present = FALSE]

\* the order detail BasitKargo returns for an id
EmptyDetail ==
  [ content_code |-> Absent, content_orderCode |-> Absent, content_reference |-> Absent,
    content_ref |-> Absent, code |-> Absent, orderCode |-> Absent, reference |-> Absent,
    ref |-> Absent, sourceOrderCode |-> Absent, source_orderCode |-> Absent,
    source_code |-> Absent, foreignCode |-> Absent,
    si_handlerShipmentCode |-> "", barcode |-> "", si_trackingLink |-> "",
    si_handler_name |-> "", si_handler_code |-> "" ]

LPText == <<"L", "P", "-", "1", "0", "0", "9">>
LowerLPText == <<"l", "p", "-", "1", "0", "0", "9">>
PlatformIdText == <<"7", "7", "0", "8", "7", "2", "6", "4", "6", "0", "7", "0", "9">>
BlankText == <<" ">>
PaddedPlatformIdText == BlankText \o PlatformIdText \o BlankText

Statuses == {"", "SHIPPED", "READY_TO_SHIP", "CANCELLED"}
EventIds == {"", "BK-1"}
PayloadTrackings ==
  { [hsc |-> "", bar |-> ""], [hsc |-> "TRK1", bar |-> ""], [hsc |-> "", bar |-> "BAR1"] }
PayloadHints == {Absent, Str(LowerLPText)}

Payloads ==
  {NoBody} \cup
  { [EmptyPayload EXCEPT !.status = st, !.id = id,
                         !.handlerShipmentCode = tr.hsc, !.barcode = tr.bar,
                         !.shopify_order = h] :
      st \in Statuses, id \in EventIds, tr \in PayloadTrackings, h \in PayloadHints }

DetailIdents ==
  { [cc |-> Absent, fc |-> Absent],
    [cc |-> Str(LPText), fc |-> Absent],
    [cc |-> Str(PlatformIdText), fc |-> Absent],
    [cc |-> Absent, fc |-> Str(PlatformIdText)],
    [cc |-> Absent, fc |-> Str(PaddedPlatformIdText)],
    [cc |-> Str(LPText), fc |-> Str(PlatformIdText)],
    [cc |-> Obj, fc |-> Str(BlankText)] }
DetailTrackings ==
  { [si |-> "", bar |-> ""], [si |-> "TRK2", bar |-> ""], [si |-> "", bar |-> "BAR2"] }

Details ==
  { [EmptyDetail EXCEPT !.content_code = idt.cc, !.foreignCode = idt.fc,
                        !.si_handlerShipmentCode = tr.si, !.barcode = tr.bar] :
      idt \in DetailIdents, tr \in DetailTrackings }

Envs ==
  { [shopify |-> TRUE, bk |-> TRUE], [shopify |-> FALSE, bk |-> TRUE],
    [shopify |-> TRUE, bk |-> FALSE] }

UnitStatuses == {"OPEN", "IN_PROGRESS", "CLOSED"}
UnitLists == UNION { [1..n -> UnitStatuses] : n \in 0..MaxUnits }
\* what the order lookup can find: no order, or the order with its fulfillment orders
Orders ==
  {[exists |-> FALSE, units |-> <<>>]} \cup {[exists |-> TRUE, units |-> us] : us \in UnitLists}
OrderName == <<"#">> \o LPText

(* ------------------------------- state --------------------------------- *)
VARIABLES
  variant,       \* the handler variant that is deployed
  env,           \* which credentials are configured (process.env)
  payload,       \* the request body of the event; every delivery carries the same one
  known,         \* which remote records have been read so far; what a remote system
                 \* holds is fixed the first time it answers
  detail,        \* the order detail BasitKargo holds for the event's id
  orderExists,   \* whether the order lookup finds an order
  units,         \* Shopify: status of each fulfillment order of the order; the id is the index
  fulfillments,  \* Shopify: the fulfillments created so far, as the unit each belongs to
  delivered,     \* how many times the event has been delivered
  previous,      \* how the delivery before the current one ended
  pc,            \* per handler: "idle", "await_bk", "await_order", "await_write", "done"
  loc,           \* per handler: the local variables of the invocation
  outcome,       \* per handler: what the invocation returned or threw
  bkCalls,       \* per handler: requests the invocation sent to BasitKargo
  orderCalls,    \* per handler: order queries the invocation sent to Shopify
  writeCalls,    \* per handler: fulfillmentCreateV2 mutations the invocation sent, in order
  replies,       \* per handler: the answers the invocation received, in order
  http,          \* per handler: the response the webhook route sent for the invocation
  sample,        \* a text and what order-name extraction makes of it (SpecExtract)
  backfill,      \* the run of POST /backfill-today (SpecBackfill)
  request        \* the request as a POST route receives it: route, key and body

\* the state of the deliveries of an event
webhookVars == << variant, env, payload, known, detail, orderExists, units, fulfillments,
                  delivered, previous, pc, loc, outcome, bkCalls, orderCalls, writeCalls,
                  replies, http >>
\* the state outside the handler invocations
outerVars == << sample, backfill, request >>
vars == << webhookVars, outerVars >>

NoIdent == [kind |-> "none", gid |-> NoText, query |-> NoQuery]
Reference(gid) == [kind |-> "reference", gid |-> gid, query |-> NoQuery]
SearchQuery(q) == [kind |-> "searchQuery", gid |-> NoText, query |-> q]

NoLocals ==
  [ bk |-> EmptyDetail, ident |-> NoIdent, trackingNumber |-> "", trackingUrl |-> "",
    carrier |-> "", orderName |-> NoText, found |-> FALSE, snapshot |-> <<>>,
    openFOs |-> <<>>, results |-> <<>> ]

\* {ok, msg}: kind is the terminal state, msg the message template, the rest the
\* values interpolated into the message
NoOutcome ==
  [ ok |-> FALSE, kind |-> "NONE", msg |-> "", thrown |-> FALSE, orderName |-> NoText,
    tracking |-> "", fulfillments |-> <<>>, errors |-> <<>>, ident |-> NoIdent ]
Result(ok, kind, msg) == [NoOutcome EXCEPT !.ok = ok, !.kind = kind, !.msg = msg]

\* what one step of a handler leaves behind: where it stands, what it returned, and the
\* remote call it issued ("none", "bk", "order" or "write" with the unit written to)
Finish(l, o) == [pc |-> "done", outcome |-> o, loc |-> l, call |-> "none", target |-> 0]
Throw(l, msg) == Finish(l, [NoOutcome EXCEPT !.kind = "THROWN", !.thrown = TRUE, !.msg = msg])
Await(l, call, target) ==
  [pc |-> "await_" \o call, outcome |-> NoOutcome, loc |-> l, call |-> call, target |-> target]

IsOpen(status) == status = "OPEN" \/ status = "IN_PROGRESS"
\* foNodes.filter(n => n.status === "OPEN" || n.status === "IN_PROGRESS"), as unit ids
OpenFOs(snapshot) == SelectSeq([n \in 1..Len(snapshot) |-> n], LAMBDA n : IsOpen(snapshot[n]))

(* --------------------------- remote clients ---------------------------- *)
basitKargoGetOrderById(l) ==
  IF ~env.bk THEN Throw(l, "Missing BASITKARGO_TOKEN") ELSE Await(l, "bk", 0)

\* backfill, search and gid variants: credentials are checked by the client
shopifyGraphql(l, call, target) ==
  IF ~env.shopify THEN Throw(l, "Missing SHOPIFY_STORE or SHOPIFY_TOKEN")
  ELSE Await(l, call, target)

\* payload variant: the client takes the credentials as arguments
shopifyGraphql_payload(l, call, target) == Await(l, call, target)

BkResponses == {"ok", "http", "nonjson"}
OrderResponses == {"ok", "http", "nonjson", "gqlerr"}
WriteResponses == {"accepted", "userErrors", "http", "nonjson", "gqlerr"}
UserErrors == <<"userError">>

(* ------------------------- Fulfillment Writer -------------------------- *)
\* fulfillWithTrackingOnOpenFOs up to its first await
\* the same start with the first write sent before the order is looked up
fulfillWithTrackingOnOpenFOs_writingFirst(l) == shopifyGraphql(l, "write", 1)
fulfillWithTrackingOnOpenFOs(l) == shopifyGraphql(l, "order", 0)

\* the same step with a missing order taken for an order without open units
fulfillWithTrackingOnOpenFOs_afterOrder_notFoundAsNoOp(l, resp, found, snapshot) ==
  IF resp # "ok" THEN Throw(l, "Shopify " \o resp)
  ELSE LET open == OpenFOs(snapshot)
           l2 == [l EXCEPT !.found = found, !.snapshot = snapshot,
                           !.orderName = OrderName, !.openFOs = open]
       IN  IF open = <<>>
           THEN Finish(l2, [Result(TRUE, "NO_OPEN_UNITS", "No OPEN/IN_PROGRESS fulfillmentOrder")
                              EXCEPT !.orderName = OrderName])
           ELSE shopifyGraphql(l2, "write", open[1])

\* from the answer to the order query to the first write
fulfillWithTrackingOnOpenFOs_afterOrder(l, resp, found, snapshot) ==
  IF resp # "ok" THEN Throw(l, "Shopify " \o resp)
  ELSE IF ~found
  THEN Finish(l, [Result(FALSE, "FAILED", "Order not found") EXCEPT !.ident = l.ident])
  ELSE LET open == OpenFOs(snapshot)
           l2 == [l EXCEPT !.found = TRUE, !.snapshot = snapshot,
                           !.orderName = OrderName, !.openFOs = open]
       IN  IF open = <<>>
           THEN Finish(l2, [Result(TRUE, "NO_OPEN_UNITS", "No OPEN/IN_PROGRESS fulfillmentOrder")
                              EXCEPT !.orderName = OrderName])
           ELSE shopifyGraphql(l2, "write", open[1])

\* the same step with the userErrors of the answer not looked at
fulfillWithTrackingOnOpenFOs_afterWrite_ignoringUserErrors(l, resp, fid) ==
  IF resp \in {"http", "nonjson", "gqlerr"} THEN Throw(l, "Shopify " \o resp)
  ELSE LET l2 == [l EXCEPT !.results = Append(@, fid)]
       IN  IF Len(l2.results) < Len(l2.openFOs)
           THEN shopifyGraphql(l2, "write", l2.openFOs[Len(l2.results) + 1])
           ELSE Finish(l2, [Result(TRUE, "DONE", "OK") EXCEPT
                              !.orderName = l2.orderName, !.tracking = l2.trackingNumber,
                              !.fulfillments = l2.results])

\* from the answer to a write to the next write or the return
fulfillWithTrackingOnOpenFOs_afterWrite(l, resp, fid) ==
  IF resp \in {"http", "nonjson", "gqlerr"} THEN Throw(l, "Shopify " \o resp)
  ELSE IF resp = "userErrors"
  THEN Finish(l, [Result(FALSE, "PARTIAL_FAILURE", "Shopify userErrors")
                    EXCEPT !.errors = UserErrors])
  ELSE LET l2 == [l EXCEPT !.results = Append(@, fid)]
       IN  IF Len(l2.results) < Len(l2.openFOs)
           THEN shopifyGraphql(l2, "write", l2.openFOs[Len(l2.results) + 1])
           ELSE Finish(l2, [Result(TRUE, "DONE", "OK") EXCEPT
                              !.orderName = l2.orderName, !.tracking = l2.trackingNumber,
                              !.fulfillments = l2.results])

(* ------------------- Webhook Orchestrator: backfill -------------------- *)
OkStatuses == {"READY_TO_SHIP", "SHIPPED"}

handleBasitKargoWebhook_backfill(p) ==
  IF ~p.present \/ p.id = ""
  THEN Finish(NoLocals, Result(TRUE, "TEST_IGNORED", "OK (test payload ignored)"))
  ELSE IF p.status # "" /\ p.status \notin OkStatuses
  THEN Finish(NoLocals, Result(TRUE, "IGNORED", "OK (status ignored)"))
  ELSE basitKargoGetOrderById(NoLocals)

normalizeTrackingUrl(bk, p) == FirstNonEmpty(<<bk.si_trackingLink, p.si_trackingLink>>)

\* the same step with a failed detail request returned as a handled failure
handleBasitKargoWebhook_backfill_afterDetail_failureReturned(l, resp, bk, p) ==
  IF resp # "ok" THEN Finish(l, Result(FALSE, "FAILED", "BasitKargo " \o resp))
  ELSE LET orderGid == extractShopifyOrderGidFromBasitKargo(bk)
           trackingNumber == normalizeTrackingNumber_backfill(bk, p)
           l2 == [l EXCEPT !.bk = bk]
       IN  IF orderGid = NoText
           THEN Finish(l2, Result(FALSE, "FAILED", "BasitKargo response missing Shopify order id"))
           ELSE IF trackingNumber = ""
           THEN Finish(l2, Result(FALSE, "FAILED", "Tracking number missing"))
           ELSE fulfillWithTrackingOnOpenFOs(
                  [l2 EXCEPT !.ident = Reference(orderGid), !.trackingNumber = trackingNumber,
                             !.trackingUrl = normalizeTrackingUrl(bk, p), !.carrier = "Other"])
handleBasitKargoWebhook_backfill_afterDetail(l, resp, bk, p) ==
  IF resp # "ok" THEN Throw(l, "BasitKargo " \o resp)
  ELSE LET orderGid == extractShopifyOrderGidFromBasitKargo(bk)
           trackingNumber == normalizeTrackingNumber_backfill(bk, p)
           l2 == [l EXCEPT !.bk = bk]
       IN  IF orderGid = NoText
           THEN Finish(l2, Result(FALSE, "FAILED", "BasitKargo response missing Shopify order id"))
           ELSE IF trackingNumber = ""
           THEN Finish(l2, Result(FALSE, "FAILED", "Tracking number missing"))
           ELSE fulfillWithTrackingOnOpenFOs(
                  [l2 EXCEPT !.ident = Reference(orderGid), !.trackingNumber = trackingNumber,
                             !.trackingUrl = normalizeTrackingUrl(bk, p), !.carrier = "Other"])

(* ---------------------- Webhook Orchestrator: gid ---------------------- *)
handleBasitKargoWebhook_gid(p) ==
  IF p.status \notin OkStatuses
  THEN Finish(NoLocals, Result(TRUE, "IGNORED", "Ignored"))
  ELSE IF p.id = ""
  THEN Finish(NoLocals, Result(FALSE, "FAILED", "Webhook payload missing id"))
  ELSE basitKargoGetOrderById(NoLocals)

handleBasitKargoWebhook_gid_afterDetail(l, resp, bk, p) ==
  IF resp # "ok" THEN Throw(l, "BasitKargo " \o resp)
  ELSE LET orderGid == extractShopifyOrderGidFromBasitKargo(bk)
           trackingNumber == normalizeTrackingNumber_gid(bk, p)
           l2 == [l EXCEPT !.bk = bk]
       IN  IF orderGid = NoText
           THEN Finish(l2, Result(FALSE, "FAILED", "BasitKargo response missing Shopify order id"))
           ELSE IF trackingNumber = ""
           THEN Finish(l2, Result(FALSE, "FAILED", "Tracking number not found"))
           ELSE fulfillWithTrackingOnOpenFOs(
                  [l2 EXCEPT !.ident = Reference(orderGid), !.trackingNumber = trackingNumber,
                             !.carrier = normalizeCarrierName(bk, p)])

(* --------------------- Webhook Orchestrator: search -------------------- *)
OrderHint(p) == FirstTruthy(<<p.shopify_order, p.orderNumber, p.order_no, p.code, p.order>>)

\* step 3 of the handler: build the search query and send it
handleBasitKargoWebhook_search_find(l, shopifyOrderName) ==
  LET q == buildOrderQuery(shopifyOrderName)
  IN  IF q = NoQuery
      THEN Finish(l, Result(FALSE, "FAILED", "Invalid Shopify order name"))
      ELSE shopifyGraphql([l EXCEPT !.ident = SearchQuery(q)], "order", 0)

\* the same start with the remote detail fetched even when the event carries an order hint
handleBasitKargoWebhook_search_detailFirst(p) ==
  LET l == [NoLocals EXCEPT !.trackingNumber = p.handlerShipmentCode, !.carrier = "Other"]
  IN  IF p.status # "SHIPPED"
      THEN Finish(NoLocals, Result(TRUE, "IGNORED", "Ignored"))
      ELSE IF p.handlerShipmentCode = ""
      THEN Finish(l, Result(FALSE, "FAILED", "Missing handlerShipmentCode"))
      ELSE IF p.id = ""
      THEN Finish(l, Result(FALSE, "FAILED", "Webhook payload missing id"))
      ELSE basitKargoGetOrderById(l)

handleBasitKargoWebhook_search(p) ==
  LET l == [NoLocals EXCEPT
              !.trackingNumber = p.handlerShipmentCode,
              !.carrier = IF FirstNonEmpty(<<p.handler_name, p.handler_code>>) # ""
                          THEN FirstNonEmpty(<<p.handler_name, p.handler_code>>)
                          ELSE "Other"]
  IN  IF p.status # "SHIPPED"
      THEN Finish(NoLocals, Result(TRUE, "IGNORED", "Ignored"))
      ELSE IF p.handlerShipmentCode = ""
      THEN Finish(l, Result(FALSE, "FAILED", "Missing handlerShipmentCode"))
      ELSE IF Truthy(OrderHint(p))
      THEN handleBasitKargoWebhook_search_find(l, NormalizeHint(OrderHint(p)))
      ELSE IF p.id = ""
      THEN Finish(l, Result(FALSE, "FAILED", "Webhook payload missing id"))
      ELSE basitKargoGetOrderById(l)

handleBasitKargoWebhook_search_afterDetail(l, resp, bk, p) ==
  IF resp # "ok" THEN Throw(l, "BasitKargo " \o resp)
  ELSE LET extracted == extractShopifyOrderNameFromBasitKargo(bk)
           l2 == [l EXCEPT !.bk = bk]
       IN  IF extracted = NoText
           THEN Finish(l2, Result(FALSE, "FAILED", "Shopify order code not found in detail"))
           ELSE handleBasitKargoWebhook_search_find(l2, extracted)

\* steps 3 and 4 of the handler are the same code as fulfillWithTrackingOnOpenFOs
handleBasitKargoWebhook_search_afterOrder(l, resp, found, snapshot) ==
  fulfillWithTrackingOnOpenFOs_afterOrder(l, resp, found, snapshot)

\* the write step with the created fulfillment not recorded
handleBasitKargoWebhook_search_afterWrite_withoutIds(l, resp, fid) ==
  LET st == fulfillWithTrackingOnOpenFOs_afterWrite(l, resp, fid)
  IN  [st EXCEPT !.loc.results = <<>>, !.outcome.fulfillments = <<>>]

handleBasitKargoWebhook_search_afterWrite(l, resp, fid) ==
  fulfillWithTrackingOnOpenFOs_afterWrite(l, resp, fid)

(* --------------------- Webhook Orchestrator: payload ------------------- *)
handleShipmentToShopify(p) ==
  LET l == [NoLocals EXCEPT
              !.trackingNumber = p.handlerShipmentCode,
              !.carrier = IF p.handler_code # "" THEN p.handler_code ELSE "Other"]
      orderInput == OrderHint(p)
      q == buildOrderQuery(ToText(orderInput))
  IN  IF ~env.shopify
      THEN Finish(NoLocals, Result(FALSE, "FAILED", "Missing SHOPIFY_STORE or SHOPIFY_TOKEN"))
      ELSE IF p.status # "SHIPPED"
      THEN Finish(NoLocals, Result(TRUE, "IGNORED", "Ignored"))
      ELSE IF p.handlerShipmentCode = ""
      THEN Finish(l, Result(FALSE, "FAILED", "Missing handlerShipmentCode"))
      ELSE IF ~Truthy(orderInput)
      THEN Finish(l, Result(FALSE, "FAILED", "Missing Shopify order in payload"))
      ELSE IF q = NoQuery
      THEN Finish(l, Result(FALSE, "FAILED", "Invalid order input"))
      ELSE shopifyGraphql_payload([l EXCEPT !.ident = SearchQuery(q)], "order", 0)

\* openFO: the first OPEN/IN_PROGRESS unit, else the first unit, else none (0)
OpenFO(snapshot) ==
  IF OpenFOs(snapshot) # <<>> THEN OpenFOs(snapshot)[1]
  ELSE IF snapshot # <<>> THEN 1 ELSE 0

handleShipmentToShopify_afterOrder(l, resp, found, snapshot) ==
  IF resp = "nonjson" THEN Throw(l, "Shopify " \o resp)
  ELSE IF resp = "http"
  THEN Finish(l, Result(FALSE, "FAILED", "Shopify find order HTTP"))
  ELSE IF resp = "gqlerr" \/ ~found
  THEN Finish(l, [Result(FALSE, "FAILED", "Order not found") EXCEPT !.ident = l.ident])
  ELSE LET openFO == OpenFO(snapshot)
           l2 == [l EXCEPT !.found = TRUE, !.snapshot = snapshot, !.orderName = OrderName,
                           !.openFOs = IF openFO = 0 THEN <<>> ELSE <<openFO>>]
       IN  IF openFO = 0
           THEN Finish(l2, Result(FALSE, "FAILED", "No fulfillmentOrderId found"))
           ELSE shopifyGraphql_payload(l2, "write", openFO)

handleShipmentToShopify_afterWrite(l, resp, fid) ==
  IF resp = "nonjson" THEN Throw(l, "Shopify " \o resp)
  ELSE IF resp = "http"
  THEN Finish(l, Result(FALSE, "FAILED", "Shopify fulfill HTTP"))
  ELSE IF resp = "userErrors"
  THEN Finish(l, [Result(FALSE, "PARTIAL_FAILURE", "Shopify userErrors")
                    EXCEPT !.errors = UserErrors])
  ELSE Finish(l, [Result(TRUE, "DONE", "OK") EXCEPT
                    !.orderName = l.orderName, !.tracking = l.trackingNumber])

(* ------------------------------ dispatch ------------------------------- *)
HandlerStart(p) ==
  CASE variant = "backfill" -> handleBasitKargoWebhook_backfill(p)
    [] variant = "gid"      -> handleBasitKargoWebhook_gid(p)
    [] variant = "search"   -> handleBasitKargoWebhook_search(p)
    [] variant = "payload"  -> handleShipmentToShopify(p)

HandlerAfterDetail(l, resp, bk, p) ==
  CASE variant = "backfill" -> handleBasitKargoWebhook_backfill_afterDetail(l, resp, bk, p)
    [] variant = "gid"      -> handleBasitKargoWebhook_gid_afterDetail(l, resp, bk, p)
    [] variant = "search"   -> handleBasitKargoWebhook_search_afterDetail(l, resp, bk, p)

HandlerAfterOrder(l, resp, found, snapshot) ==
  CASE variant = "backfill" -> fulfillWithTrackingOnOpenFOs_afterOrder(l, resp, found, snapshot)
    [] variant = "gid"      -> fulfillWithTrackingOnOpenFOs_afterOrder(l, resp, found, snapshot)
    [] variant = "search"   -> handleBasitKargoWebhook_search_afterOrder(l, resp, found, snapshot)
    [] variant = "payload"  -> handleShipmentToShopify_afterOrder(l, resp, found, snapshot)

HandlerAfterWrite(l, resp, fid) ==
  CASE variant = "backfill" -> fulfillWithTrackingOnOpenFOs_afterWrite(l, resp, fid)
    [] variant = "gid"      -> fulfillWithTrackingOnOpenFOs_afterWrite(l, resp, fid)
    [] variant = "search"   -> handleBasitKargoWebhook_search_afterWrite(l, resp, fid)
    [] variant = "payload"  -> handleShipmentToShopify_afterWrite(l, resp, fid)

\* the fulfillmentCreateV2 input sent for unit fo
WriteCall(l, fo) ==
  [fo |-> fo, company |-> l.carrier, number |-> l.trackingNumber, url |-> l.trackingUrl]

\* no response has been sent
NoHttp == [status |-> 0, body |-> ""]
\* the webhook route around the handler: res.status(result.ok ? 200 : 400).send(result.msg),
\* and in the catch res.status(500).send(e?.message || "Server error"), which in the
\* payload variant is res.status(500).send("Server error")
RouteResponse(o) ==
  IF o.thrown
  THEN [status |-> 500,
        body |-> IF variant = "payload" \/ o.msg = "" THEN "Server error" ELSE o.msg]
  ELSE [status |-> IF o.ok THEN 200 ELSE 400, body |-> o.msg]

\* handler h takes the step st; calls0 are the calls of the invocation before the step;
\* when the step ends an invocation made by the webhook route, the route responds
Apply(h, st, calls0) ==
  /\ pc' = [pc EXCEPT ![h] = st.pc]
  /\ http' = [http EXCEPT ![h] = IF st.pc = "done" /\ backfill.pc = "off"
                                  THEN RouteResponse(st.outcome) ELSE NoHttp]
  /\ loc' = [loc EXCEPT ![h] = st.loc]
  /\ outcome' = [outcome EXCEPT ![h] = st.outcome]
  /\ bkCalls' = [bkCalls EXCEPT ![h] = calls0.bk + (IF st.call = "bk" THEN 1 ELSE 0)]
  /\ orderCalls' = [orderCalls EXCEPT ![h] = calls0.order + (IF st.call = "order" THEN 1 ELSE 0)]
  /\ writeCalls' = [writeCalls EXCEPT
                      ![h] = IF st.call = "write"
                             THEN Append(calls0.write, WriteCall(st.loc, st.target))
                             ELSE calls0.write]

NoCalls == [bk |-> 0, order |-> 0, write |-> <<>>]
Calls(h) == [bk |-> bkCalls[h], order |-> orderCalls[h], write |-> writeCalls[h]]

\* handler h receives the answer resp to its call
Reply(h, call, resp) == replies' = [replies EXCEPT ![h] = Append(@, [call |-> call, resp |-> resp])]

\* the units the writes of handler h were sent to, in order
WrittenUnits(h) == [n \in 1..Len(writeCalls[h]) |-> writeCalls[h][n].fo]
\* every write of handler h was answered, and accepted by the platform
AllWritesAccepted(h) ==
  /\ pc[h] # "await_write"
  /\ \A n \in 1..Len(replies[h]) :
       replies[h][n].call = "write" => replies[h][n].resp = "accepted"

\* how a delivery ended: its outcome and the units it wrote
NoPrevious == [kind |-> "NONE", ok |-> FALSE, written |-> <<>>, accepted |-> FALSE]
Summary(h) ==
  [ kind |-> outcome[h].kind, ok |-> outcome[h].ok, written |-> WrittenUnits(h),
    accepted |-> AllWritesAccepted(h) ]

\* no backfill is running
NoResponse == [status |-> 0, body |-> "", doneCount |-> 0, failedCount |-> 0, failed |-> <<>>]
NoBackfill ==
  [ pc |-> "off",          \* "off", "received", "await_filter", "await_item", "responded"
    size |-> 0, maxPages |-> 0,
    page |-> 0,            \* the loop variable
    items |-> <<>>,        \* the items of the current page, as their ids ("" for no id)
    idx |-> 0,             \* the position in items of the item being handled
    done |-> <<>>, failed |-> <<>>,
    response |-> NoResponse,
    filterCalls |-> <<>>,  \* the page index of every filter call issued, in order
    pageSizes |-> <<>>,    \* the number of items each answered page held (-1: not a list)
    returned |-> <<>>,     \* every item the filter calls returned, in order
    invoked |-> <<>>,      \* the id of every handler call made, in order
    results |-> <<>> ]     \* how every handler call ended, in order

\* a request to a POST route: the key it carries in its query ("" for none), the
\* configured WEBHOOK_KEY ("" for none), its body, and the answer of checkKey when it
\* refuses the request; this one is a webhook delivery to a server without WEBHOOK_KEY,
\* whose body is the event
NoRequest ==
  [ route |-> "webhook", key |-> "", expected |-> "", body |-> NoBody,
    pc |-> "admitted", reply |-> NoHttp ]

\* if (!expected) return true; if (key !== expected) { 401; return false } return true
\* the same check passed by any key at all
checkKey_anyKey(r) == r.expected = "" \/ r.key # ""
checkKey(r) == r.expected = "" \/ r.key = r.expected

\* no text is being extracted from
NoSample ==
  [ stage |-> "none", text |-> NoText, via |-> "none", name |-> NoText, again |-> NoText,
    fields |-> <<>> ]

\* the orders a backfill run meets are drawn from smaller sets than the order of a
\* delivered event
ItemDetails ==
  { EmptyDetail,
    [EmptyDetail EXCEPT !.content_code = Str(PlatformIdText), !.si_handlerShipmentCode = "TRK2"] }
ItemOrders ==
  { [exists |-> FALSE, units |-> <<>>],
    [exists |-> TRUE, units |-> <<"OPEN">>],
    [exists |-> TRUE, units |-> <<"CLOSED">>] }
RemoteDetails == IF backfill.pc = "off" THEN Details ELSE ItemDetails
RemoteOrders == IF backfill.pc = "off" THEN Orders ELSE ItemOrders

(* ------------------------------ actions -------------------------------- *)
\* nothing was delivered and nothing read from the remote systems yet
NothingDelivered ==
  /\ known = [detail |-> FALSE, order |-> FALSE]
  /\ detail = EmptyDetail
  /\ orderExists = FALSE
  /\ units = <<>>
  /\ fulfillments = <<>>
  /\ delivered = 0
  /\ previous = NoPrevious
  /\ pc = [h \in Handlers |-> "idle"]
  /\ loc = [h \in Handlers |-> NoLocals]
  /\ outcome = [h \in Handlers |-> NoOutcome]
  /\ bkCalls = [h \in Handlers |-> 0]
  /\ orderCalls = [h \in Handlers |-> 0]
  /\ writeCalls = [h \in Handlers |-> <<>>]
  /\ replies = [h \in Handlers |-> <<>>]
  /\ http = [h \in Handlers |-> NoHttp]

Init ==
  /\ variant \in Variants
  /\ env \in Envs
  /\ payload \in Payloads
  /\ NothingDelivered
  /\ sample = NoSample
  /\ backfill = NoBackfill
  /\ request = NoRequest

\* the event is delivered, or delivered again once the delivery before has ended: a new
\* invocation of the handler runs up to its first await or return
Deliver(h) ==
  /\ h = "first"
  /\ checkKey(request)
  /\ delivered < MaxDeliveries
  /\ \A g \in Handlers : pc[g] \in {"idle", "done"}
  /\ delivered' = delivered + 1
  /\ previous' = IF pc[h] = "done" THEN Summary(h) ELSE previous
  /\ replies' = [replies EXCEPT ![h] = <<>>]
  /\ Apply(h, HandlerStart(payload), NoCalls)
  /\ UNCHANGED <<variant, env, payload, known, detail, orderExists, units, fulfillments>>
  /\ UNCHANGED outerVars

\* BasitKargo answers the GET /order/{id}
BkRespond(h) ==
  /\ pc[h] = "await_bk"
  /\ \E resp \in BkResponses :
       \E d \in (IF resp = "ok" /\ ~known.detail THEN RemoteDetails ELSE {detail}) :
         /\ detail' = d
         /\ known' = [known EXCEPT !.detail = @ \/ resp = "ok"]
         /\ Apply(h, HandlerAfterDetail(loc[h], resp, d, payload), Calls(h))
         /\ Reply(h, "bk", resp)
  /\ UNCHANGED <<variant, env, payload, orderExists, units, fulfillments, delivered, previous>>
  /\ UNCHANGED outerVars

\* Shopify answers the order query with the order's current fulfillment orders
OrderRespond(h) ==
  /\ pc[h] = "await_order"
  /\ \E resp \in OrderResponses :
       \E order \in (IF resp = "ok" /\ ~known.order THEN RemoteOrders
                     ELSE {[exists |-> orderExists, units |-> units]}) :
         /\ orderExists' = order.exists
         /\ units' = order.units
         /\ known' = [known EXCEPT !.order = @ \/ resp = "ok"]
         /\ Apply(h, HandlerAfterOrder(loc[h], resp, order.exists, order.units), Calls(h))
         /\ Reply(h, "order", resp)
  /\ UNCHANGED <<variant, env, payload, detail, fulfillments, delivered, previous>>
  /\ UNCHANGED outerVars

\* Shopify answers a fulfillmentCreateV2; an accepted write creates a fulfillment and
\* closes the unit
WriteRespond(h) ==
  /\ pc[h] = "await_write"
  /\ LET fo == writeCalls[h][Len(writeCalls[h])].fo
     IN  \E resp \in WriteResponses :
           /\ IF resp = "accepted"
              THEN /\ units' = [units EXCEPT ![fo] = "CLOSED"]
                   /\ fulfillments' = Append(fulfillments, fo)
              ELSE UNCHANGED <<units, fulfillments>>
           /\ Apply(h, HandlerAfterWrite(loc[h], resp, Len(fulfillments) + 1), Calls(h))
           /\ Reply(h, "write", resp)
  /\ UNCHANGED <<variant, env, payload, known, detail, orderExists, delivered, previous>>
  /\ UNCHANGED outerVars

Next == \E h \in Handlers : Deliver(h) \/ BkRespond(h) \/ OrderRespond(h) \/ WriteRespond(h)

Spec == Init /\ [][Next]_vars

(* --------------------------- POST /backfill-today ---------------------- *)
\* const size = Number(req.body?.size || 100)
DefaultSize == 100
\* const maxPages = Number(req.body?.maxPages || 50)
DefaultMaxPages == 50
\* the size and maxPages a request body carries; 0 stands for a body without the field
BodySizes == {0, 1, 2}
BodyMaxPages == {0, 1, 2, 3}

\* the id of the n-th item the provider returns
ItemId(n) == "BK-" \o ToString(n)
\* what a filter call finds under the first populated list key: a list of items, each
\* with an id or without one ("" here), or something that is not a list
NotAList == [list |-> FALSE, items |-> <<>>]
PageContents(before) ==
  UNION { { [list |-> TRUE,
             items |-> [j \in 1..n |-> IF withId[j] THEN ItemId(before + j) ELSE ""]] :
              withId \in [1..n -> BOOLEAN] } : n \in 0..(MaxItems - before) }
FilterResponses == {"ok", "http", "nonjson"}

\* { id, status: "READY_TO_SHIP" }
ItemPayload(id) == [EmptyPayload EXCEPT !.id = id, !.status = "READY_TO_SHIP"]

\* res.json({ ok: true, ..., doneCount, failedCount, failed })
RespondSummary(b) ==
  [b EXCEPT !.pc = "responded",
            !.response = [status |-> 200, body |-> "", doneCount |-> Len(b.done),
                          failedCount |-> Len(b.failed), failed |-> b.failed]]
\* catch (e) { return res.status(500).send(e?.message || "Server error") }
RespondError(b, msg) ==
  [b EXCEPT !.pc = "responded", !.response = [NoResponse EXCEPT !.status = 500, !.body = msg]]

\* a step of the driver: the run's new state and the id of the item whose handler call
\* the step starts ("" when it starts none)
DriverStep(b, start) == [b |-> b, start |-> start]

\* the head of the page loop: page < maxPages, then basitKargoFilterOrders up to its fetch
BackfillLoopFrom_unbounded(b, page) ==
  IF ~env.bk
  THEN DriverStep(RespondError(b, "Missing BASITKARGO_TOKEN"), "")
  ELSE DriverStep([b EXCEPT !.pc = "await_filter", !.page = page,
                            !.filterCalls = Append(@, page)], "")
BackfillLoopFrom(b, page) ==
  IF page < b.maxPages
  THEN IF ~env.bk
       THEN DriverStep(RespondError(b, "Missing BASITKARGO_TOKEN"), "")
       ELSE DriverStep([b EXCEPT !.pc = "await_filter", !.page = page,
                                 !.filterCalls = Append(@, page)], "")
  ELSE DriverStep(RespondSummary(b), "")

\* the first position from `from` on whose item has an id; 0 when there is none
NextWithId(items, from) ==
  IF \E j \in from..Len(items) : items[j] # ""
  THEN CHOOSE j \in from..Len(items) : items[j] # "" /\ \A k \in from..(j - 1) : items[k] = ""
  ELSE 0

\* the item loop from position `from`: the next handler call, or the end of the page
BackfillItemsFrom(b, from) ==
  LET j == NextWithId(b.items, from) IN
    IF j # 0
    THEN DriverStep([b EXCEPT !.pc = "await_item", !.idx = j,
                              !.invoked = Append(@, b.items[j])], b.items[j])
    ELSE IF Len(b.items) < b.size
         THEN DriverStep(RespondSummary(b), "")
         ELSE BackfillLoopFrom(b, b.page + 1)

\* the handler call of an item returned or threw: done.push / failed.push
BackfillCollect_abortingOnFailure(b, o) ==
  LET entry == [id |-> b.items[b.idx], msg |-> o.msg]
      b1 == [b EXCEPT !.results = Append(@, [id |-> b.items[b.idx], ok |-> ~o.thrown /\ o.ok,
                                             thrown |-> o.thrown, msg |-> o.msg])] IN
    IF ~o.thrown /\ o.ok
    THEN [b1 EXCEPT !.done = Append(@, entry)]
    ELSE [b1 EXCEPT !.failed = Append(@, entry), !.items = SubSeq(@, 1, b.idx)]
BackfillCollect(b, o) ==
  LET entry == [id |-> b.items[b.idx], msg |-> o.msg]
      b1 == [b EXCEPT !.results = Append(@, [id |-> b.items[b.idx], ok |-> ~o.thrown /\ o.ok,
                                             thrown |-> o.thrown, msg |-> o.msg])] IN
    IF ~o.thrown /\ o.ok
    THEN [b1 EXCEPT !.done = Append(@, entry)]
    ELSE [b1 EXCEPT !.failed = Append(@, entry)]

\* the handler and the order it works on, between two handler calls of a run
HandlerAtRest ==
  /\ payload' = NoBody
  /\ known' = [detail |-> FALSE, order |-> FALSE]
  /\ detail' = EmptyDetail
  /\ orderExists' = FALSE
  /\ units' = <<>>
  /\ fulfillments' = <<>>
  /\ pc' = [h \in Handlers |-> "idle"]
  /\ loc' = [h \in Handlers |-> NoLocals]
  /\ outcome' = [h \in Handlers |-> NoOutcome]
  /\ bkCalls' = [h \in Handlers |-> 0]
  /\ orderCalls' = [h \in Handlers |-> 0]
  /\ writeCalls' = [h \in Handlers |-> <<>>]
  /\ replies' = [h \in Handlers |-> <<>>]
  /\ http' = [h \in Handlers |-> NoHttp]
\* await handleBasitKargoWebhook({ id, status: "READY_TO_SHIP" }), up to its first await
HandlerCalledFor(id) ==
  /\ payload' = ItemPayload(id)
  /\ known' = [detail |-> FALSE, order |-> FALSE]
  /\ detail' = EmptyDetail
  /\ orderExists' = FALSE
  /\ units' = <<>>
  /\ fulfillments' = <<>>
  /\ replies' = [h \in Handlers |-> <<>>]
  /\ Apply("first", HandlerStart(ItemPayload(id)), NoCalls)
\* the driver takes the step d
Drive(d) ==
  /\ backfill' = d.b
  /\ IF d.start # "" THEN HandlerCalledFor(d.start) ELSE HandlerAtRest
  /\ request' = [request EXCEPT !.pc = "admitted"]
  /\ UNCHANGED <<variant, env, delivered, previous, sample>>

InitBackfill ==
  /\ variant = "backfill"
  /\ env \in Envs
  /\ payload = NoBody
  /\ NothingDelivered
  /\ sample = NoSample
  /\ backfill = [NoBackfill EXCEPT !.pc = "received"]
  /\ request = [NoRequest EXCEPT !.route = "backfill"]

\* the request arrives: size and maxPages are read, and the loop is entered
BackfillRequest ==
  /\ backfill.pc = "received"
  /\ checkKey(request)
  /\ \E size \in BodySizes, maxPages \in BodyMaxPages :
       Drive(BackfillLoopFrom(
               [backfill EXCEPT !.size = IF size = 0 THEN DefaultSize ELSE size,
                                !.maxPages = IF maxPages = 0 THEN DefaultMaxPages ELSE maxPages],
               0))

\* the filter call is answered
FilterRespond ==
  /\ backfill.pc = "await_filter"
  /\ \E resp \in FilterResponses :
       IF resp # "ok"
       THEN Drive(DriverStep(RespondError(backfill, "BasitKargo " \o resp), ""))
       ELSE \E found \in PageContents(Len(backfill.returned)) \cup {NotAList} :
              LET b1 == [backfill EXCEPT
                           !.items = found.items,
                           !.returned = @ \o found.items,
                           !.pageSizes = Append(@, IF found.list THEN Len(found.items) ELSE -1)]
              IN IF ~found.list \/ found.items = <<>>
                 THEN Drive(DriverStep(RespondSummary(b1), ""))
                 ELSE Drive(BackfillItemsFrom(b1, 1))

\* the handler call of the current item is over: its outcome is collected and the item
\* loop goes on
ItemReturn ==
  /\ backfill.pc = "await_item"
  /\ pc["first"] = "done"
  /\ Drive(BackfillItemsFrom(BackfillCollect(backfill, outcome["first"]), backfill.idx + 1))

NextBackfill ==
  \/ BackfillRequest
  \/ FilterRespond
  \/ ItemReturn
  \/ BkRespond("first")
  \/ OrderRespond("first")
  \/ WriteRespond("first")

SpecBackfill == InitBackfill /\ [][NextBackfill]_vars
\* every call the run is waiting for is answered in the end
FairSpecBackfill == SpecBackfill /\ WF_vars(NextBackfill)

(* ------------------- the POST routes and their key --------------------- *)
\* WEBHOOK_KEY as configured ("" for none) and the key a request carries ("" for none)
ConfiguredKeys == {"", "k1"}
RequestKeys == {"", "k1", "k2"}
\* the bodies sent to the routes
RouteBodies ==
  {NoBody} \cup
  { [EmptyPayload EXCEPT !.status = st, !.id = id, !.handlerShipmentCode = hsc,
                         !.shopify_order = h] :
      st \in Statuses, id \in EventIds, hsc \in {"", "TRK1"}, h \in PayloadHints }
\* the webhook route and the manual route of every variant, and /backfill-today where
\* there is one
RoutesOf(v) == {"webhook", "manual"} \cup (IF v = "backfill" THEN {"backfill"} ELSE {})

\* /manual-bk (backfill and gid variants):
\*   { id: req.body?.id, status: req.body?.status || "READY_TO_SHIP" }
manualBkPayload(body) ==
  [EmptyPayload EXCEPT !.id = body.id,
                       !.status = IF body.status # "" THEN body.status ELSE "READY_TO_SHIP"]
\* /manual-ship (search and payload variants): { ...req.body, status: "SHIPPED" }
manualShipPayload(body) == [body EXCEPT !.present = TRUE, !.status = "SHIPPED"]
\* the payload a route hands to the handler
HandedPayload(r) ==
  IF r.route = "webhook" THEN r.body
  ELSE IF variant \in {"backfill", "gid"} THEN manualBkPayload(r.body)
  ELSE manualShipPayload(r.body)

InitRoutes ==
  /\ variant \in Variants
  /\ env = [shopify |-> TRUE, bk |-> TRUE]
  /\ payload = NoBody
  /\ NothingDelivered
  /\ sample = NoSample
  /\ request \in { [NoRequest EXCEPT !.route = r, !.key = k, !.expected = e, !.body = b,
                                     !.pc = "received"] :
                     r \in RoutesOf(variant), k \in RequestKeys, e \in ConfiguredKeys,
                     b \in RouteBodies }
  /\ request.route = "backfill" => request.body = NoBody
  /\ backfill = IF request.route = "backfill"
                THEN [NoBackfill EXCEPT !.pc = "received"] ELSE NoBackfill

\* checkKey refuses the request: res.status(401).send("Unauthorized")
RouteReject ==
  /\ request.pc = "received"
  /\ ~checkKey(request)
  /\ request' = [request EXCEPT !.pc = "rejected",
                                !.reply = [status |-> 401, body |-> "Unauthorized"]]
  /\ UNCHANGED <<webhookVars, sample, backfill>>

\* checkKey admits the request to the webhook or manual route, and the handler is called
RouteAdmit(h) ==
  /\ h = "first"
  /\ request.pc = "received"
  /\ request.route \in {"webhook", "manual"}
  /\ checkKey(request)
  /\ request' = [request EXCEPT !.pc = "admitted"]
  /\ payload' = HandedPayload(request)
  /\ delivered' = delivered + 1
  /\ Apply(h, HandlerStart(HandedPayload(request)), NoCalls)
  /\ UNCHANGED <<variant, env, known, detail, orderExists, units, fulfillments, previous,
                 replies, sample, backfill>>

NextRoutes ==
  \/ RouteReject
  \/ BackfillRequest
  \/ FilterRespond
  \/ ItemReturn
  \/ \E h \in Handlers :
       RouteAdmit(h) \/ BkRespond(h) \/ OrderRespond(h) \/ WriteRespond(h)

SpecRoutes == InitRoutes /\ [][NextRoutes]_vars

(* ----------------------- events that name a carrier -------------------- *)
\* shipped events with a tracking number whose carrier fields are populated or not; the
\* payload variant is given an order hint, the other variants resolve the detail
CarrierPayloads(v) ==
  { [EmptyPayload EXCEPT !.status = "SHIPPED", !.id = "BK-1", !.handlerShipmentCode = "TRK1",
                         !.shopify_order = h,
                         !.handler_name = hn, !.handler_code = hc,
                         !.si_handler_name = sn, !.si_handler_code = sc] :
      h \in (IF v = "payload" THEN {Str(LowerLPText)} ELSE {Absent}),
      hn \in {"", "MNG Kargo"}, hc \in {"", "MNG"},
      sn \in {"", "Yurtici Kargo"}, sc \in {"", "YURTICI"} }
\* the remote detail of such an event: an identifier the deployed variant resolves, and
\* carrier fields populated or not
CarrierDetails(v) ==
  { [EmptyDetail EXCEPT !.content_code = IF v = "search" THEN Str(LPText)
                                          ELSE Str(PlatformIdText),
                        !.si_handler_name = bn, !.si_handler_code = bc] :
      bn \in {"", "Aras Kargo"}, bc \in {"", "ARAS"} }

InitCarrier ==
  /\ variant \in Variants
  /\ env = [shopify |-> TRUE, bk |-> TRUE]
  /\ payload \in CarrierPayloads(variant)
  /\ NothingDelivered
  /\ sample = NoSample
  /\ backfill = NoBackfill
  /\ request = NoRequest

\* BasitKargo answers the GET /order/{id} of such an event
BkRespondCarrier(h) ==
  /\ pc[h] = "await_bk"
  /\ \E resp \in BkResponses :
       \E d \in (IF resp = "ok" /\ ~known.detail THEN CarrierDetails(variant) ELSE {detail}) :
         /\ detail' = d
         /\ known' = [known EXCEPT !.detail = @ \/ resp = "ok"]
         /\ Apply(h, HandlerAfterDetail(loc[h], resp, d, payload), Calls(h))
         /\ Reply(h, "bk", resp)
  /\ UNCHANGED <<variant, env, payload, orderExists, units, fulfillments, delivered, previous>>
  /\ UNCHANGED outerVars

NextCarrier ==
  \E h \in Handlers : Deliver(h) \/ BkRespondCarrier(h) \/ OrderRespond(h) \/ WriteRespond(h)

SpecCarrier == InitCarrier /\ [][NextCarrier]_vars

(* ------------------ two deliveries of one event at once ----------------- *)
\* a shipped event that every variant can resolve: id, tracking number and order hint
OverlapPayloads ==
  { [EmptyPayload EXCEPT !.status = "SHIPPED", !.id = "BK-1", !.handlerShipmentCode = "TRK1",
                         !.shopify_order = h] : h \in PayloadHints }

InitOverlap ==
  /\ variant \in Variants
  /\ env = [shopify |-> TRUE, bk |-> TRUE]
  /\ payload \in OverlapPayloads
  /\ NothingDelivered
  /\ sample = NoSample
  /\ backfill = NoBackfill
  /\ request = NoRequest

\* the event is delivered to a handler of its own, whatever the other one is doing
DeliverOverlapping(h) ==
  /\ checkKey(request)
  /\ pc[h] = "idle"
  /\ delivered' = delivered + 1
  /\ Apply(h, HandlerStart(payload), NoCalls)
  /\ UNCHANGED <<variant, env, payload, known, detail, orderExists, units, fulfillments,
                 previous, replies>>
  /\ UNCHANGED outerVars

NextOverlap ==
  \E h \in Handlers :
    DeliverOverlapping(h) \/ BkRespond(h) \/ OrderRespond(h) \/ WriteRespond(h)

SpecOverlap == InitOverlap /\ [][NextOverlap]_vars

(* ----------------- order-name extraction on its own -------------------- *)
\* the texts extraction is applied to: every string of these characters up to MaxTextLen
SampleChars == {"#", "L", "l", "P", "p", "-", "1", "0"}
SampleTexts == UNION { [1..n -> SampleChars] : n \in 0..MaxTextLen }

\* the text as the only identifier field of a remote detail (content.code)
DetailWithCode(text) == [EmptyDetail EXCEPT !.content_code = Str(text)]
\* what the search variant makes of a text, met in the remote detail or in the event
ExtractVia(via, text) ==
  IF via = "detail" THEN extractShopifyOrderNameFromBasitKargo(DetailWithCode(text))
  ELSE NormalizeHint(Str(text))

InitExtract ==
  /\ variant = "search"
  /\ env = [shopify |-> TRUE, bk |-> TRUE]
  /\ payload = NoBody
  /\ NothingDelivered
  /\ sample \in {[NoSample EXCEPT !.stage = "input", !.text = t] : t \in SampleTexts}
  /\ backfill = NoBackfill
  /\ request = NoRequest

\* the text is found in content.code of the remote detail (part_000:168)
ExtractFromDetail ==
  /\ sample.stage = "input"
  /\ sample' = [sample EXCEPT !.stage = "extracted", !.via = "detail",
                              !.name = ExtractVia("detail", sample.text)]
  /\ UNCHANGED <<webhookVars, backfill, request>>

\* the text is the order hint of the event (part_000:158-162)
NormalizeEventHint ==
  /\ sample.stage = "input"
  /\ sample.text # <<>>
  /\ sample' = [sample EXCEPT !.stage = "extracted", !.via = "hint",
                              !.name = ExtractVia("hint", sample.text)]
  /\ UNCHANGED <<webhookVars, backfill, request>>

\* extraction is applied to its own output
ExtractAgain ==
  /\ sample.stage = "extracted"
  /\ sample.name # NoText
  /\ sample' = [sample EXCEPT !.stage = "extracted again",
                              !.again = ExtractVia(sample.via, sample.name)]
  /\ UNCHANGED <<webhookVars, backfill, request>>

NextExtract == ExtractFromDetail \/ NormalizeEventHint \/ ExtractAgain

SpecExtract == InitExtract /\ [][NextExtract]_vars

(* ------------- order-name extraction from several fields --------------- *)
\* a run of n digits
DigitChars == <<"1", "2", "3", "4", "5", "6", "7", "8", "9">>
RunOfDigits(n) == [k \in 1..n |-> DigitChars[((k - 1) % 9) + 1]]
\* what a field of the remote detail holds, by its make: nothing, a bare run of digits,
\* a run that follows letters, a run among words ("a / 1009:"), an LP code in lower
\* case or with the hash, an LP code inside other text, or text without digits
FieldMakes ==
  {[make |-> "absent", n |-> 0], [make |-> "other", n |-> 0], [make |-> "embedded", n |-> 2]}
    \cup { [make |-> m, n |-> n] : m \in {"run", "attached", "worded"}, n \in 1..MaxRunLen }
    \cup { [make |-> m, n |-> n] : m \in {"exact", "hashed"}, n \in {1, 4} }
FieldOf(f) ==
  CASE f.make = "absent"   -> Absent
    [] f.make = "other"    -> Str(<<"a", "b", "c">>)
    [] f.make = "run"      -> Str(RunOfDigits(f.n))
    [] f.make = "attached" -> Str(<<"a", "b">> \o RunOfDigits(f.n))
    [] f.make = "worded"   -> Str(<<"a", " ", "/", " ">> \o RunOfDigits(f.n) \o <<":">>)
    [] f.make = "exact"    -> Str(<<"l", "p", "-">> \o RunOfDigits(f.n))
    [] f.make = "hashed"   -> Str(<<" ", "#", "L", "p", "-">> \o RunOfDigits(f.n) \o <<" ">>)
    [] f.make = "embedded" -> Str(<<"a", "l", "p", "-">> \o RunOfDigits(f.n) \o <<"b">>)
\* a remote detail with two populated candidate fields: content.code and ref
DetailWithFields(fs) ==
  [EmptyDetail EXCEPT !.content_code = FieldOf(fs[1]), !.ref = FieldOf(fs[2])]

InitPriority ==
  /\ variant = "search"
  /\ env = [shopify |-> TRUE, bk |-> TRUE]
  /\ payload = NoBody
  /\ known = [detail |-> TRUE, order |-> FALSE]
  /\ sample \in {[NoSample EXCEPT !.stage = "input", !.fields = fs] :
                   fs \in [1..2 -> FieldMakes]}
  /\ detail = DetailWithFields(sample.fields)
  /\ orderExists = FALSE /\ units = <<>> /\ fulfillments = <<>>
  /\ delivered = 0 /\ previous = NoPrevious
  /\ pc = [h \in Handlers |-> "idle"]
  /\ loc = [h \in Handlers |-> NoLocals]
  /\ outcome = [h \in Handlers |-> NoOutcome]
  /\ bkCalls = [h \in Handlers |-> 0]
  /\ orderCalls = [h \in Handlers |-> 0]
  /\ writeCalls = [h \in Handlers |-> <<>>]
  /\ replies = [h \in Handlers |-> <<>>]
  /\ http = [h \in Handlers |-> NoHttp]
  /\ backfill = NoBackfill
  /\ request = NoRequest

\* const extracted = extractShopifyOrderNameFromBasitKargo(bk) (part_000:168)
ExtractFromFetched ==
  /\ sample.stage = "input"
  /\ sample' = [sample EXCEPT !.stage = "extracted", !.via = "detail",
                              !.name = extractShopifyOrderNameFromBasitKargo(detail)]
  /\ UNCHANGED <<webhookVars, backfill, request>>

NextPriority == ExtractFromFetched

SpecPriority == InitPriority /\ [][NextPriority]_vars

(* ----------------------------- properties ------------------------------ *)
Done(i) == pc[i] = "done"
\* the open units of the order as the lookup of handler i returned them
OpenUnits(i) == OpenFOs(loc[i].snapshot)
Resolved(i) == loc[i].found
LastReply(i) == replies[i][Len(replies[i])]
GotReply(i, call, resp) ==
  \E n \in 1..Len(replies[i]) : replies[i][n] = [call |-> call, resp |-> resp]
\* the statuses the deployed variant acts on
Actionable(status) ==
  IF variant \in {"backfill", "gid"} THEN status \in OkStatuses ELSE status = "SHIPPED"
\* the tracking number the deployed variant finds in the event and the remote detail
TrackingFound ==
  CASE variant = "backfill" -> normalizeTrackingNumber_backfill(detail, payload)
    [] variant = "gid"      -> normalizeTrackingNumber_gid(detail, payload)
    [] OTHER                -> payload.handlerShipmentCode

\* C1: every fulfillment write issued targets a unit whose status in the order lookup of
\* the same invocation was OPEN or IN_PROGRESS.
C1_WritesOnlyToOpenUnits ==
  \A i \in Handlers : \A n \in 1..Len(writeCalls[i]) :
    /\ writeCalls[i][n].fo \in 1..Len(loc[i].snapshot)
    /\ IsOpen(loc[i].snapshot[writeCalls[i][n].fo])

\* C2: with N >= 1 open units, a successful invocation has issued exactly one write per
\* open unit, in order, and its message lists N fulfillment ids; a write answered with
\* validation errors is the last write issued, and the writes issued are always the first
\* open units, each once.
C2_WriteCountMatchesOpenUnits ==
  \A i \in Handlers :
    (Resolved(i) /\ Len(OpenUnits(i)) >= 1) =>
      /\ Len(writeCalls[i]) <= Len(OpenUnits(i))
      /\ WrittenUnits(i) = SubSeq(OpenUnits(i), 1, Len(writeCalls[i]))
      /\ (Done(i) /\ outcome[i].ok) =>
           /\ Len(writeCalls[i]) = Len(OpenUnits(i))
           /\ Len(outcome[i].fulfillments) = Len(OpenUnits(i))
      /\ (Done(i) /\ outcome[i].kind = "PARTIAL_FAILURE") =>
           Len(writeCalls[i]) = Len(loc[i].results) + 1

\* C3: a resolved order without any OPEN or IN_PROGRESS unit gets no write, and the
\* handler returns the NO_OPEN_UNITS success.
C3_NoOpenUnitsIsSuccessWithoutWrites ==
  \A i \in Handlers :
    (Resolved(i) /\ OpenUnits(i) = <<>>) =>
      /\ writeCalls[i] = <<>>
      /\ Done(i) => (outcome[i].ok /\ outcome[i].kind = "NO_OPEN_UNITS")

\* C4: a delivery of the same event after a delivery that ended in DONE (all its writes
\* accepted, the platform closing each written unit) or NO_OPEN_UNITS issues no write,
\* does not end in a failure outcome, and no unit is written by both.
C4_ReplayIsIdempotent ==
  \A i \in Handlers :
    (pc[i] # "idle" /\ previous.kind \in {"DONE", "NO_OPEN_UNITS"} /\ previous.accepted) =>
      /\ writeCalls[i] = <<>>
      /\ Done(i) => (outcome[i].ok \/ outcome[i].thrown)
      /\ \A n \in 1..Len(previous.written) : \A m \in 1..Len(writeCalls[i]) :
           previous.written[n] # writeCalls[i][m].fo

\* C5: an event with an actionable status and no tracking number in any candidate field
\* gets no write and never ends in a success outcome.
C5_MissingTrackingIsFailure ==
  \A i \in Handlers :
    (pc[i] # "idle" /\ Actionable(payload.status) /\ TrackingFound = "") =>
      /\ writeCalls[i] = <<>>
      /\ Done(i) => ~outcome[i].ok

\* C6: an event whose status is not actionable (or absent) causes no remote call and
\* ends in a success outcome.
C6_NotActionableIsIgnored ==
  \A i \in Handlers :
    (pc[i] # "idle" /\ ~Actionable(payload.status)) =>
      /\ Done(i) /\ outcome[i].ok
      /\ bkCalls[i] = 0 /\ orderCalls[i] = 0 /\ writeCalls[i] = <<>>

\* C7: when a write is answered with validation errors the invocation has ended in
\* PARTIAL_FAILURE (ok = false, the error list in the message), no further write was
\* issued, no unit was written twice, and the units accepted before stay written.
C7_ValidationErrorEndsInPartialFailure ==
  \A i \in Handlers :
    (replies[i] # <<>> /\ LastReply(i) = [call |-> "write", resp |-> "userErrors"]) =>
      /\ Done(i)
      /\ ~outcome[i].ok /\ ~outcome[i].thrown
      /\ outcome[i].kind = "PARTIAL_FAILURE"
      /\ outcome[i].errors = UserErrors
      /\ Len(writeCalls[i]) = Cardinality({n \in 1..Len(replies[i]) : replies[i][n].call = "write"})
      /\ \A n, m \in 1..Len(writeCalls[i]) : n # m => writeCalls[i][n].fo # writeCalls[i][m].fo
      /\ \A n \in 1..(Len(writeCalls[i]) - 1) :
           /\ units[writeCalls[i][n].fo] = "CLOSED"
           /\ \E f \in 1..Len(fulfillments) : fulfillments[f] = writeCalls[i][n].fo

\* C7 witness: a second write was refused after the first one was accepted
C7_Witness ==
  \E i \in Handlers :
    /\ Len(replies[i]) >= 2
    /\ LastReply(i) = [call |-> "write", resp |-> "userErrors"]
    /\ replies[i][Len(replies[i]) - 1] = [call |-> "write", resp |-> "accepted"]
    /\ outcome[i].kind = "PARTIAL_FAILURE"

\* C8: an event with an actionable status, no correlation id and no order hint ends in
\* FAILED (ok = false, returned) without any remote call.
C8_MissingIdIsFailure ==
  \A i \in Handlers :
    (pc[i] # "idle" /\ Actionable(payload.status) /\ payload.id = ""
       /\ ~Truthy(OrderHint(payload))) =>
      /\ Done(i)
      /\ ~outcome[i].ok /\ ~outcome[i].thrown /\ outcome[i].kind = "FAILED"
      /\ bkCalls[i] = 0 /\ orderCalls[i] = 0 /\ writeCalls[i] = <<>>

\* an event that carries a status and shipment data
CarriesShipmentData(p) ==
  /\ p.status # ""
  /\ p.handlerShipmentCode # "" \/ p.barcode # "" \/ p.si_handlerShipmentCode # ""

\* C9: in the backfill variant a payload without body or without id ends in the test
\* success no-op without remote calls, and that no-op is given to test payloads only,
\* not to an event that carries a status and shipment data but no id.
C9_TestPayloadOnlyNoOp ==
  \A i \in Handlers :
    (variant = "backfill" /\ pc[i] # "idle") =>
      /\ (~payload.present \/ payload.id = "") =>
           /\ Done(i) /\ outcome[i].ok
           /\ bkCalls[i] = 0 /\ orderCalls[i] = 0 /\ writeCalls[i] = <<>>
      /\ outcome[i].kind = "TEST_IGNORED" => ~CarriesShipmentData(payload)

\* a field that bears no identifier: absent, of another shape than a string, or blank
Unpopulated(v) == v.t # "str" \/ Trim(v.s) = <<>>
\* the fields of the remote detail the deployed variant reads the order identifier from
IdentifierFields(bk) ==
  IF variant = "search" THEN NameCandidates(bk) ELSE <<bk.content_code, bk.foreignCode>>
NoIdentifierIn(bk) ==
  LET fields == IdentifierFields(bk) IN \A n \in DOMAIN fields : Unpopulated(fields[n])
ExtractIdentifier(bk) ==
  IF variant = "search" THEN extractShopifyOrderNameFromBasitKargo(bk)
  ELSE extractShopifyOrderGidFromBasitKargo(bk)

\* C10: when the fetched remote detail has no populated identifier field, extraction
\* returns null and the handler has returned FAILED (ok = false, not thrown) without any
\* order query or write.
C10_NoIdentifierIsFailure ==
  \A i \in Handlers :
    (GotReply(i, "bk", "ok") /\ NoIdentifierIn(detail)) =>
      /\ ExtractIdentifier(detail) = NoText
      /\ Done(i)
      /\ ~outcome[i].ok /\ ~outcome[i].thrown /\ outcome[i].kind = "FAILED"
      /\ orderCalls[i] = 0 /\ writeCalls[i] = <<>>

\* C10 witness: a detail whose only identifier fields are an object and a blank was fetched
C10_Witness ==
  \E i \in Handlers :
    /\ GotReply(i, "bk", "ok")
    /\ NoIdentifierIn(detail)
    /\ detail.content_code = Obj
    /\ outcome[i].kind = "FAILED"

\* C11: when the order lookup was answered and found no order, the invocation has ended
\* in FAILED (ok = false, returned), its message carries the search query or the order
\* reference the lookup was made with, and no write was issued.
C11_OrderNotFoundIsFailure ==
  \A i \in Handlers :
    (GotReply(i, "order", "ok") /\ ~orderExists) =>
      /\ Done(i)
      /\ ~outcome[i].ok /\ ~outcome[i].thrown /\ outcome[i].kind = "FAILED"
      /\ outcome[i].msg = "Order not found"
      /\ loc[i].ident.kind \in {"reference", "searchQuery"}
      /\ outcome[i].ident = loc[i].ident
      /\ writeCalls[i] = <<>>

\* C11 witness: a lookup by direct reference found no order
C11_Witness ==
  \E i \in Handlers :
    /\ GotReply(i, "order", "ok") /\ ~orderExists
    /\ outcome[i].kind = "FAILED"
    /\ outcome[i].ident.kind = "reference"
    /\ outcome[i].ident.gid = GidPrefix \o PlatformIdText

\* a field that holds a numeric platform id of 10 to 16 digits once trimmed
PlatformIdIn(v) == v.t = "str" /\ MatchesPlatformId(Trim(v.s))
CarriesPlatformId(bk) == PlatformIdIn(bk.content_code) \/ PlatformIdIn(bk.foreignCode)
PlatformIdOf(bk) ==
  IF PlatformIdIn(bk.content_code) THEN Trim(bk.content_code.s) ELSE Trim(bk.foreignCode.s)
\* the identifier the deployed variant derives from a fetched detail
IdentifierOf(bk) ==
  LET extracted == ExtractIdentifier(bk)
  IN  IF extracted = NoText THEN NoIdent
      ELSE IF variant = "search" THEN SearchQuery(buildOrderQuery(extracted))
      ELSE Reference(extracted)

\* C12: when the fetched detail carries a numeric platform id of 10 to 16 digits in
\* content.code or foreignCode, the identifier is the reference gid://shopify/Order/<digits>,
\* no text search is issued, and (a tracking number and the credentials being there) the
\* order is fetched by that reference.
C12_PlatformIdGivesDirectReference ==
  \A i \in Handlers :
    (GotReply(i, "bk", "ok") /\ CarriesPlatformId(detail)) =>
      /\ IdentifierOf(detail) = Reference(GidPrefix \o PlatformIdOf(detail))
      /\ loc[i].ident.kind # "searchQuery"
      /\ orderCalls[i] > 0 => loc[i].ident = Reference(GidPrefix \o PlatformIdOf(detail))
      /\ (TrackingFound # "" /\ env.shopify) => orderCalls[i] = 1

\* the event and the remote detail of the scenario
ScenarioEvent == [EmptyPayload EXCEPT !.status = "SHIPPED", !.id = "BK-1"]
ScenarioEventWithTracking == [ScenarioEvent EXCEPT !.handlerShipmentCode = "TRK1"]
ScenarioDetail == [EmptyDetail EXCEPT !.content_code = Str(LPText)]
\* every remote call of handler i so far was answered without failure or refusal
AllRepliesGood(i) ==
  \A n \in 1..Len(replies[i]) : replies[i][n].resp \in {"ok", "accepted"}
\* the success of the scenario: one write, to unit 1, and a message with the order name
\* and the id of the fulfillment created for unit 1
OneWriteToTheOpenUnit(i) ==
  /\ outcome[i].ok /\ outcome[i].kind = "DONE"
  /\ Len(writeCalls[i]) = 1 /\ writeCalls[i][1].fo = 1
  /\ outcome[i].orderName = OrderName
  /\ Len(outcome[i].fulfillments) = 1
  /\ outcome[i].fulfillments[1] \in 1..Len(fulfillments)
  /\ fulfillments[outcome[i].fulfillments[1]] = 1

\* C13: an event carrying only status SHIPPED and a correlation id, with LP-1009 in
\* content.code of the remote detail and the order found with exactly one OPEN unit, ends
\* (every remote call answered well, the credentials configured) in success with exactly
\* one write, to that unit, and a message with the order name and the new fulfillment id.
C13_ScenarioEndsInOneWrite ==
  \A i \in Handlers :
    ( /\ payload = ScenarioEvent /\ env.shopify /\ env.bk /\ delivered = 1
      /\ known.detail => detail = ScenarioDetail
      /\ known.order => (orderExists /\ loc[i].snapshot = <<"OPEN">>)
      /\ AllRepliesGood(i) /\ Done(i) ) =>
      OneWriteToTheOpenUnit(i)

\* C13 as amended: in the search variant, with the tracking number in the event's
\* handlerShipmentCode, the scenario issues the search for #LP-1009 and exactly one
\* write, to the open unit, with that tracking number; once the write is accepted the
\* handler has returned success with the order name and the new fulfillment id.
C13_ScenarioWithTrackingEndsInOneWrite ==
  \A i \in Handlers :
    ( /\ variant = "search" /\ payload = ScenarioEventWithTracking
      /\ GotReply(i, "bk", "ok") /\ detail.content_code = Str(LPText)
      /\ GotReply(i, "order", "ok") /\ orderExists /\ loc[i].snapshot = <<"OPEN">> ) =>
      /\ loc[i].ident = SearchQuery([withHash |-> Hash \o LPText, noHash |-> LPText])
      /\ Len(writeCalls[i]) = 1
      /\ writeCalls[i][1].fo = 1 /\ writeCalls[i][1].number = "TRK1"
      /\ ~Done(i) => pc[i] = "await_write"
      /\ GotReply(i, "write", "accepted") => (Done(i) /\ OneWriteToTheOpenUnit(i))

\* C13 witness: the scenario ran to its end
C13_Witness ==
  \E i \in Handlers :
    /\ variant = "search" /\ payload = ScenarioEventWithTracking
    /\ GotReply(i, "bk", "ok") /\ detail.content_code = Str(LPText)
    /\ GotReply(i, "order", "ok") /\ loc[i].snapshot = <<"OPEN">>
    /\ GotReply(i, "write", "accepted")
    /\ outcome[i].kind = "DONE"

\* an identifier of the form: optional '#', 'LP' in any letter case, '-', digits
IsLPIdentifier(s) ==
  LET b == IF s # <<>> /\ s[1] = "#" THEN SubSeq(s, 2, Len(s)) ELSE s
  IN  /\ Len(b) >= 4
      /\ b[1] \in {"L", "l"} /\ b[2] \in {"P", "p"} /\ b[3] = "-"
      /\ \A n \in 4..Len(b) : b[n] \in {"0", "1", "2", "3", "4", "5", "6", "7", "8", "9"}
\* the digits of such an identifier
DigitsOf(s) == IF s[1] = "#" THEN SubSeq(s, 5, Len(s)) ELSE SubSeq(s, 4, Len(s))

\* C14: for every identifier of the form #?LP-<digits> in any letter case, extraction
\* returns '#LP-<digits>' in upper case with one leading '#', and extraction applied to
\* that output returns it unchanged.
C14_LPCodeIsNormalisedIdempotently ==
  (sample.stage \in {"extracted", "extracted again"} /\ IsLPIdentifier(sample.text)) =>
    /\ sample.name = <<"#", "L", "P", "-">> \o DigitsOf(sample.text)
    /\ sample.stage = "extracted again" => sample.again = sample.name

\* C14 witness: '#lp-1' was extracted from a detail, and extracted again
C14_Witness ==
  /\ sample.stage = "extracted again"
  /\ sample.via = "detail"
  /\ sample.text = <<"#", "l", "p", "-", "1">>
  /\ sample.again = <<"#", "L", "P", "-", "1">>

\* the identifier the deployed variant derives from the order hint of the event
IdentifierOfHint(p) ==
  IF variant = "search" THEN SearchQuery(buildOrderQuery(NormalizeHint(OrderHint(p))))
  ELSE SearchQuery(buildOrderQuery(ToText(OrderHint(p))))

\* C15: when the event carries an order hint and an order lookup is made, the remote
\* detail has been consulted, and when it carries a usable identifier the lookup is made
\* with the identifier taken from the detail.
C15_DetailTakesPrecedence ==
  \A i \in Handlers :
    (orderCalls[i] > 0 /\ Truthy(OrderHint(payload))) =>
      /\ GotReply(i, "bk", "ok")
      /\ IdentifierOf(detail) # NoIdent => loc[i].ident = IdentifierOf(detail)

\* C15 as amended: the search variant makes the lookup with the order hint of the event
\* when there is one, without fetching the remote detail, and with the identifier of the
\* remote detail only when the event carries no hint; the gid and backfill variants take
\* the identifier from the remote detail only, the payload variant from the event only.
C15_HintTakesPrecedenceWhereRead ==
  \A i \in Handlers :
    orderCalls[i] > 0 =>
      IF variant = "payload" \/ (variant = "search" /\ Truthy(OrderHint(payload)))
      THEN bkCalls[i] = 0 /\ loc[i].ident = IdentifierOfHint(payload)
      ELSE LET fromDetail == IdentifierOf(detail)
           IN  /\ bkCalls[i] = 1 /\ GotReply(i, "bk", "ok")
               /\ fromDetail # NoIdent
               /\ loc[i].ident = fromDetail

\* C15 witness: the search variant looked the order up by the hint of an event that also
\* carried the id the remote detail could have been fetched with
C15_Witness ==
  \E i \in Handlers :
    /\ variant = "search"
    /\ payload.id # "" /\ Truthy(OrderHint(payload))
    /\ orderCalls[i] > 0 /\ bkCalls[i] = 0
    /\ loc[i].ident = SearchQuery([withHash |-> Hash \o LPText, noHash |-> LPText])


(* ------------------------------ backfill runs --------------------------- *)
\* the ids of the items that have one, in scan order
IdsOf(items) == SelectSeq(items, LAMBDA id : id # "")
IsPrefixOf(s, t) == Len(s) <= Len(t) /\ SubSeq(t, 1, Len(s)) = s
\* the { id, msg } of every handler call that returned ok = false or threw, in call order
FailuresOf(results) ==
  LET failing == SelectSeq(results, LAMBDA r : ~r.ok)
  IN [n \in 1..Len(failing) |-> [id |-> failing[n].id, msg |-> failing[n].msg]]
BackfillResponded == backfill.pc = "responded"

\* C16: in a backfill run the handler is called for the scanned items that have an id,
\* once each and in scan order, whatever the earlier calls returned or threw; when
\* the run answers, every such item has been handled, doneCount + failedCount is
\* their number, and failed lists exactly the failing items' ids and messages in
\* scan order.
C16_BackfillHandlesEveryItemOnce ==
  /\ IsPrefixOf(backfill.invoked, IdsOf(backfill.returned))
  /\ Len(backfill.results) = Len(backfill.invoked) - (IF backfill.pc = "await_item" THEN 1 ELSE 0)
  /\ \A n \in 1..Len(backfill.results) : backfill.results[n].id = backfill.invoked[n]
  /\ BackfillResponded => backfill.invoked = IdsOf(backfill.returned)
  /\ BackfillResponded /\ backfill.response.status = 200 =>
       /\ backfill.response.doneCount + backfill.response.failedCount
            = Len(IdsOf(backfill.returned))
       /\ backfill.response.failed = FailuresOf(backfill.results)
C16_Witness ==
  /\ BackfillResponded /\ backfill.response.status = 200
  /\ Len(backfill.results) = 2
  /\ backfill.results[1].thrown
  /\ backfill.results[2].ok
  /\ backfill.response.doneCount = 1 /\ backfill.response.failedCount = 1

\* the filter calls so far ask for pages 0, 1, 2, ..., are at most maxPages, and none
\* follows a page that held no item or fewer items than the page size
PagesInOrder ==
  /\ \A k \in 1..Len(backfill.filterCalls) : backfill.filterCalls[k] = k - 1
  /\ backfill.pc \notin {"off", "received"} => Len(backfill.filterCalls) <= backfill.maxPages
  /\ \A k \in 1..Len(backfill.pageSizes) :
       backfill.pageSizes[k] < backfill.size \/ backfill.pageSizes[k] = 0
         => Len(backfill.filterCalls) = k

\* C17: the page loop ends; the filter calls ask for pages 0, 1, 2, ... in this order,
\* there are at most maxPages of them, and none follows a page that held no item
\* or fewer items than the page size.
C17_PageLoopTerminates == []PagesInOrder /\ <>BackfillResponded
C17_Witness ==
  /\ BackfillResponded /\ backfill.response.status = 200
  /\ backfill.size = 1 /\ backfill.maxPages = 2
  /\ backfill.filterCalls = <<0, 1>>
  /\ backfill.pageSizes = <<1, 1>>
C17_ShortPageWitness ==
  /\ BackfillResponded /\ backfill.response.status = 200
  /\ backfill.size = 2 /\ backfill.maxPages = DefaultMaxPages
  /\ backfill.pageSizes = <<2, 0>>

(* ---------------------------- failed calls ------------------------------ *)
\* a non-2xx status, or a body that is not JSON
TransportFailures == {"http", "nonjson"}
\* the number of remote calls invocation i has issued
CallsIssued(i) == bkCalls[i] + orderCalls[i] + Len(writeCalls[i])
\* the n-th answer invocation i received is a transport failure: it is the last answer,
\* no call was issued after it, and the writes accepted before it stay written
FailureEndsInvocation(i, n) ==
  /\ n = Len(replies[i])
  /\ Done(i)
  /\ CallsIssued(i) = n
  /\ \A m \in 1..(n - 1) :
       replies[i][m] = [call |-> "write", resp |-> "accepted"] =>
         LET fo == writeCalls[i][m - (bkCalls[i] + orderCalls[i])].fo
         IN  units[fo] = "CLOSED" /\ \E f \in 1..Len(fulfillments) : fulfillments[f] = fo
\* the payload variant returns a non-2xx answer of the order API that has a JSON body
ReturnedByClient(resp) == variant = "payload" /\ resp = "http"

\* C18: a transport failure of a remote call (non-2xx or non-JSON, from either API, at
\* lookup or at a write) is thrown and answered with 500, and ends the invocation with
\* no further call and no retry; the writes accepted before it stay written.
C18_TransportFailureIsThrown ==
  \A i \in Handlers : \A n \in 1..Len(replies[i]) :
    replies[i][n].resp \in TransportFailures =>
      /\ FailureEndsInvocation(i, n)
      /\ outcome[i].thrown
      /\ http[i].status = 500

\* C18 as amended: the same, except that in the payload variant a non-2xx answer of the
\* order API with a JSON body is returned as a handled failure (ok = false) and
\* answered with 400.
C18_TransportFailureEndsInvocation ==
  \A i \in Handlers : \A n \in 1..Len(replies[i]) :
    replies[i][n].resp \in TransportFailures =>
      /\ FailureEndsInvocation(i, n)
      /\ IF ReturnedByClient(replies[i][n].resp)
         THEN ~outcome[i].thrown /\ ~outcome[i].ok /\ http[i].status = 400
         ELSE outcome[i].thrown /\ http[i].status = 500

\* C18 witness: a write failed in transport after an earlier write of the same invocation
\* was accepted
C18_Witness ==
  \E i \in Handlers :
    /\ Len(writeCalls[i]) = 2
    /\ replies[i][Len(replies[i]) - 1] = [call |-> "write", resp |-> "accepted"]
    /\ LastReply(i) = [call |-> "write", resp |-> "http"]
    /\ outcome[i].thrown /\ http[i].status = 500
    /\ Len(fulfillments) = 1

(* ------------------------- missing credentials -------------------------- *)
\* the event makes the deployed variant fetch the remote detail
NeedsDetail ==
  /\ variant # "payload"
  /\ Actionable(payload.status) /\ payload.id # ""
  /\ variant = "search" => payload.handlerShipmentCode # "" /\ ~Truthy(OrderHint(payload))
\* the event, with the detail invocation i fetched, makes the deployed variant look the
\* order up: an identifier and a tracking number are there
NeedsOrderLookup(i) ==
  /\ Actionable(payload.status)
  /\ IF variant = "payload" \/ (variant = "search" /\ Truthy(OrderHint(payload)))
     THEN /\ payload.handlerShipmentCode # ""
          /\ Truthy(OrderHint(payload))
          /\ IdentifierOfHint(payload) # SearchQuery(NoQuery)
     ELSE /\ NeedsDetail
          /\ GotReply(i, "bk", "ok")
          /\ IdentifierOf(detail) \notin {NoIdent, SearchQuery(NoQuery)}
          /\ TrackingFound # ""
ConfigurationErrorThrown(i) == Done(i) /\ outcome[i].thrown /\ http[i].status = 500

\* C19: when the credential of a remote call is not configured, an event that needs the
\* call ends in a thrown configuration error answered with 500, and the call is not
\* issued.
C19_MissingCredentialIsThrown ==
  \A i \in Handlers :
    pc[i] # "idle" =>
      /\ (~env.bk /\ NeedsDetail) => ConfigurationErrorThrown(i) /\ bkCalls[i] = 0
      /\ (~env.shopify /\ NeedsOrderLookup(i)) =>
           ConfigurationErrorThrown(i) /\ orderCalls[i] = 0 /\ writeCalls[i] = <<>>

(* --------------------------- route responses ---------------------------- *)
\* C20: the webhook route answers 200 exactly when the handler returned ok = true, 400
\* exactly when it returned ok = false and 500 exactly when it threw, and the body is the
\* message of the outcome (of the thrown error for 500).
C20_StatusAndBodyFollowOutcome ==
  \A i \in Handlers :
    Done(i) =>
      /\ http[i].status = 200 <=> (~outcome[i].thrown /\ outcome[i].ok)
      /\ http[i].status = 400 <=> (~outcome[i].thrown /\ ~outcome[i].ok)
      /\ http[i].status = 500 <=> outcome[i].thrown
      /\ http[i].body = outcome[i].msg

(* ------------------------------- routes --------------------------------- *)
\* the manual route has handed a payload to the handler
ManualHanded(i) == request.route = "manual" /\ request.pc = "admitted" /\ pc[i] # "idle"

\* C21: whatever status the body of a manual request carried, the payload handed to the
\* handler has a shippable status, and the request does not end in IGNORED.
C21_ManualStatusIsShippable ==
  \A i \in Handlers :
    ManualHanded(i) =>
      /\ payload.status \in OkStatuses
      /\ outcome[i].kind # "IGNORED"

\* nothing has reached a remote system
NoRemoteCall ==
  /\ \A i \in Handlers : pc[i] = "idle" /\ CallsIssued(i) = 0
  /\ fulfillments = <<>>
  /\ backfill.filterCalls = <<>> /\ backfill.invoked = <<>>
\* the handler of the webhook or manual route, or the backfill run, has started
RouteEntered ==
  IF request.route = "backfill" THEN backfill.pc \notin {"off", "received"}
  ELSE pc["first"] # "idle"

\* C22: with a configured key, a request whose key differs is answered 401 before the
\* handler runs and causes no remote call and no write, on every POST route; without a
\* configured key every request is admitted whatever key it carries.
C22_KeyGuardsEveryRoute ==
  /\ (request.expected # "" /\ request.key # request.expected) =>
       /\ NoRemoteCall
       /\ ~RouteEntered
       /\ request.pc = "rejected" => request.reply = [status |-> 401, body |-> "Unauthorized"]
       /\ request.pc \in {"received", "rejected"}
  /\ request.expected = "" => request.pc \in {"received", "admitted"}
  /\ request.pc = "admitted" => RouteEntered
\* C22 witness: a request to /backfill-today with a wrong key was answered 401
C22_Witness ==
  /\ request.route = "backfill"
  /\ request.expected = "k1" /\ request.key = "k2"
  /\ request.pc = "rejected" /\ request.reply.status = 401
C22_OpenWitness ==
  /\ request.expected = "" /\ request.key = "k2"
  /\ request.pc = "admitted" /\ RouteEntered
  /\ \E i \in Handlers : Len(writeCalls[i]) > 0

(* ------------------------------- carrier -------------------------------- *)
\* the first populated value of a candidate list, "Other" when there is none
FirstPopulatedOrOther(candidates) ==
  IF \E n \in 1..Len(candidates) : candidates[n] # ""
  THEN candidates[CHOOSE n \in 1..Len(candidates) :
                    candidates[n] # "" /\ \A m \in 1..(n - 1) : candidates[m] = ""]
  ELSE "Other"
\* name fields of detail then event, then code fields of detail then event
CarrierCandidates ==
  << detail.si_handler_name, payload.si_handler_name, payload.handler_name,
     detail.si_handler_code, payload.si_handler_code, payload.handler_code >>
\* the candidates the deployed variant reads
CarrierCandidatesRead ==
  CASE variant = "gid"      -> CarrierCandidates
    [] variant = "search"   -> << payload.handler_name, payload.handler_code >>
    [] variant = "payload"  -> << payload.handler_code >>
    [] variant = "backfill" -> << >>

\* C23: the carrier name of every fulfillment write is not empty: it is the first
\* populated value of the candidate list (name fields of detail then event, then code
\* fields of detail then event), and "Other" when no candidate is populated.
C23_CarrierIsFirstCandidate ==
  \A i \in Handlers : \A n \in 1..Len(writeCalls[i]) :
    /\ writeCalls[i][n].company # ""
    /\ writeCalls[i][n].company = FirstPopulatedOrOther(CarrierCandidates)

\* C23 as amended: the carrier name of every fulfillment write is not empty: it is the
\* first populated value of the candidates the variant reads, and "Other" when none of
\* them is populated; the gid variant reads the whole list, the search variant the
\* event's handler name then handler code, the payload variant the event's handler code,
\* and the backfill variant none.
C23_CarrierIsFirstCandidateRead ==
  \A i \in Handlers : \A n \in 1..Len(writeCalls[i]) :
    /\ writeCalls[i][n].company # ""
    /\ writeCalls[i][n].company = FirstPopulatedOrOther(CarrierCandidatesRead)

\* C23 witness: the gid variant sent the carrier code of the detail, no name field being
\* populated, although the event carries codes too
C23_Witness ==
  \E i \in Handlers :
    /\ variant = "gid"
    /\ Len(writeCalls[i]) > 0
    /\ writeCalls[i][1].company = "ARAS"
    /\ payload.handler_code = "MNG" /\ payload.si_handler_code = "YURTICI"

(* --------------------------- invocation states -------------------------- *)
\* the ways an invocation ends; the no-op for a test payload is an ignored event
IgnoredKinds == {"IGNORED", "TEST_IGNORED"}
TerminalKinds ==
  IgnoredKinds \cup {"FAILED", "NO_OPEN_UNITS", "PARTIAL_FAILURE", "DONE", "THROWN"}
\* RECEIVED -> {IGNORED | VALIDATING -> {FAILED | RESOLVED -> {NO_OPEN_UNITS |
\* WRITING -> {PARTIAL_FAILURE | DONE}}}}, a thrown error ending the invocation anywhere
FollowsListedEdges(i) ==
  /\ Done(i) <=> outcome[i].kind \in TerminalKinds
  /\ ~Done(i) => outcome[i] = NoOutcome
  /\ Done(i) => CallsIssued(i) = Len(replies[i])
  /\ Resolved(i) => GotReply(i, "order", "ok")
  /\ writeCalls[i] # <<>> => Resolved(i) /\ OpenUnits(i) # <<>>
  /\ outcome[i].kind \in IgnoredKinds => CallsIssued(i) = 0
  /\ outcome[i].kind = "FAILED" => ~Resolved(i) /\ writeCalls[i] = <<>>
  /\ outcome[i].kind = "NO_OPEN_UNITS" => Resolved(i) /\ writeCalls[i] = <<>>
  /\ outcome[i].kind \in {"PARTIAL_FAILURE", "DONE"} => writeCalls[i] # <<>>
\* an invocation that has not ended waits for the answer to exactly one call, which can
\* arrive; it fetches the detail and looks the order up at most once and writes at most
\* once per unit of the order, so that it ends once its calls are answered
EndsOnceAnswered(i) ==
  /\ pc[i] \in {"idle", "await_bk", "await_order", "await_write", "done"}
  /\ pc[i] \notin {"idle", "done"} => CallsIssued(i) = Len(replies[i]) + 1
  /\ pc[i] = "await_bk" => ENABLED BkRespond(i)
  /\ pc[i] = "await_order" => ENABLED OrderRespond(i)
  /\ pc[i] = "await_write" => ENABLED WriteRespond(i)
  /\ bkCalls[i] <= 1 /\ orderCalls[i] <= 1
  /\ Len(writeCalls[i]) <= Len(loc[i].snapshot)

\* C24: every remote call being answered in the end, every invocation reaches one
\* terminal outcome (IGNORED, FAILED, NO_OPEN_UNITS, PARTIAL_FAILURE, DONE or a thrown
\* error) and has no call outstanding or issued after it; it moves along the listed
\* edges only, and a write is issued only after the order was resolved with at least
\* one open unit.
C24_InvocationReachesOneOutcome ==
  \A i \in Handlers : EndsOnceAnswered(i) /\ FollowsListedEdges(i)

(* ------------------------- one call at a time --------------------------- *)
\* the calls of invocation i that have not been answered
Outstanding(i) == CallsIssued(i) - Len(replies[i])
\* the call the n-th answer of invocation i belongs to, the calls being issued in the
\* order detail, lookup, writes
CallAnswered(i, n) ==
  IF n <= bkCalls[i] THEN "bk"
  ELSE IF n <= bkCalls[i] + orderCalls[i] THEN "order"
  ELSE "write"
Answered(i, call) == \E n \in 1..Len(replies[i]) : replies[i][n].call = call

\* C25: an invocation has at most one remote call outstanding: the detail fetch has
\* returned before the order lookup is issued, the lookup before the first write, each
\* write before the next; the backfill driver has at most one handler call running,
\* and none while it waits for a page.
C25_OneCallAtATime ==
  /\ \A i \in Handlers :
       /\ Outstanding(i) \in {0, 1}
       /\ Outstanding(i) = 1 <=> pc[i] \in {"await_bk", "await_order", "await_write"}
       /\ \A n \in 1..Len(replies[i]) : replies[i][n].call = CallAnswered(i, n)
       /\ (orderCalls[i] > 0 /\ bkCalls[i] > 0) => Answered(i, "bk")
       /\ writeCalls[i] # <<>> => Answered(i, "order")
       /\ \A n \in 2..Len(writeCalls[i]) :
            replies[i][bkCalls[i] + orderCalls[i] + n - 1].call = "write"
  /\ Len(backfill.invoked) - Len(backfill.results) \in {0, 1}
  /\ Len(backfill.invoked) - Len(backfill.results) = 1 <=> backfill.pc = "await_item"
  /\ backfill.pc # "await_item" => \A i \in Handlers : pc[i] = "idle" \/ backfill.pc = "off"
  /\ backfill.pc = "await_item" => Len(backfill.filterCalls) = Len(backfill.pageSizes)
\* C25 witness: the second write of an invocation is outstanding, the detail fetch, the
\* lookup and the first write having been answered
C25_Witness ==
  \E i \in Handlers :
    /\ pc[i] = "await_write"
    /\ Len(writeCalls[i]) = 2
    /\ bkCalls[i] = 1 /\ orderCalls[i] = 1
    /\ Len(replies[i]) = 3
C25_BackfillWitness ==
  /\ backfill.pc = "await_item"
  /\ Len(backfill.invoked) = 2 /\ Len(backfill.results) = 1
  /\ pc["first"] = "await_order"

(* ------------------------ overlapping deliveries ------------------------ *)
\* the writes sent for unit u, by all invocations
WritesTo(u) ==
  { <<i, n>> \in Handlers \X (1..MaxUnits) : n <= Len(writeCalls[i]) /\ writeCalls[i][n].fo = u }

\* C26: two invocations handling deliveries of the same event at the same time send, in
\* total, at most one write to each unit of the order.
C26_OverlapWritesEachUnitOnce ==
  \A u \in 1..MaxUnits : Cardinality(WritesTo(u)) <= 1

(* -------------------------- extraction priority ------------------------- *)
\* the first field of the given makes, 0 when there is none
FirstOfMakes(fs, makes) ==
  IF \E k \in 1..Len(fs) : fs[k].make \in makes
  THEN CHOOSE k \in 1..Len(fs) : fs[k].make \in makes /\ \A j \in 1..(k - 1) : fs[j].make \notin makes
  ELSE 0
\* the fields whose digits stand alone and are 3 to 8 long
StandAlone(fs) ==
  [k \in 1..Len(fs) |->
     IF fs[k].make \in {"run", "worded"} /\ fs[k].n >= 3 /\ fs[k].n <= 8
     THEN [make |-> "number", n |-> fs[k].n] ELSE [make |-> "none", n |-> 0]]
\* the name the rules give for fields of these makes, in their order of priority
NameByPriority(fs) ==
  LET exact == FirstOfMakes(fs, {"exact", "hashed"})
      embedded == FirstOfMakes(fs, {"embedded"})
      number == FirstOfMakes(StandAlone(fs), {"number"})
  IN  IF exact # 0 THEN <<"#", "L", "P", "-">> \o RunOfDigits(fs[exact].n)
      ELSE IF embedded # 0 THEN <<"#", "L", "P", "-">> \o RunOfDigits(fs[embedded].n)
      ELSE IF number # 0 THEN <<"#", "L", "P", "-">> \o RunOfDigits(fs[number].n)
      ELSE NoText

\* C27: extraction from the remote detail returns the first field that is exactly an LP
\* code, even after a field with other text; otherwise the first LP-<digits> inside the
\* fields, as #LP-<DIGITS>; otherwise #LP-<digits> for the first stand-alone run of 3 to
\* 8 digits; runs of fewer than 3 or more than 8 digits give no name, and the result is
\* then null.
C27_ExtractionFollowsPriority ==
  sample.stage = "extracted" /\ sample.fields # <<>> =>
    sample.name = NameByPriority(sample.fields)
\* C27 witness: the LP code of the second field was returned although the first field
\* holds a stand-alone number
C27_Witness ==
  /\ sample.stage = "extracted"
  /\ sample.fields = <<[make |-> "run", n |-> 4], [make |-> "exact", n |-> 1]>>
  /\ sample.name = <<"#", "L", "P", "-", "1">>
C27_LongRunWitness ==
  /\ sample.stage = "extracted"
  /\ sample.fields = <<[make |-> "run", n |-> 9], [make |-> "worded", n |-> 2]>>
  /\ sample.name = NoText

====
